---- MODULE Spec2Model ----
(***************************************************************************)
(* Graph index, weighted traversal, caches and lazy singletons of          *)
(* graphRAGmcp.                                                            *)
(*                                                                         *)
(* The specifications of this module:                                      *)
(*   SpecSingleton  callers of ensure_graph_index_initialized,             *)
(*                  ensure_community_cache_initialized (server.py) and     *)
(*                  get_graph_index (graph_index.py)                       *)
(*   SpecLoad       GraphIndex.initialize over the collections on disk     *)
(*   SpecExpand     GraphIndex.expand_weighted over a loaded index         *)
(*   SpecCache      EmbeddingCache, LLMResponseCacheSingleton and          *)
(*                  GraphRAGCache as one object under get and put          *)
(*   SpecLRU        GraphRAGCache alone, over longer call sequences        *)
(*   SpecLLM        LLMResponseCacheSingleton shared by GraphRAG instances *)
(*   SpecVector     NanoVectorDBStorage.query and upsert                   *)
(*   SpecSearch     CommunityCache: keyword index and search               *)
(*   SpecTerminate  the loop of expand_weighted under weak fairness        *)
(*   SpecConcurrent query coroutines sharing the embedding cache           *)
(*   SpecPartial    loads that raise part-way through a collection         *)
(*   SpecRead       read operations on a loaded index                      *)
(* Weights are kept in tenths (1.0 is 10) so that they stay integers.      *)
(***************************************************************************)
EXTENDS Integers, Sequences, FiniteSets, TLC

VARIABLES
    \* ---- lazy singletons (server.py 155-180, 359-380; graph_index.py 574-587)
    pc,             \* caller -> position in the coroutine
    kind,           \* caller -> which singleton it asked for
    ret,            \* caller -> the instance it was handed (NoInstance: none)
    sawNone,        \* caller -> its first check found the global unset
    global,         \* singleton kind -> the module-level global
    instances,      \* singleton kind -> status of every object constructed
    loaderRuns,     \* singleton kind -> number of initialize() calls started
    heldLocks,      \* callers holding the asyncio.Lock() they created
    dataDirExists,  \* whether DATA_PATH is a directory
    \* ---- GraphIndex (graph_index.py 97-346)
    disk,           \* collection -> its graph file and its chunk store file
    index,          \* the GraphIndex object: its maps and counters
    lpc,            \* position of the initialize() call
    pending,        \* collections initialize() has still to load
    loadList,       \* the commune_ids of the initialize() call under way
    initCalls,      \* number of initialize() calls made on the object
    first_index,    \* the index as the first initialize() call left it
    first_list,     \* the commune_ids of the first initialize() call
    \* ---- GraphIndex.expand_weighted (graph_index.py 435-550)
    seed_entities, max_hops, max_results, commune_filter, include_chunks,
    heap,           \* the priority queue, as the set of its entries
    visited,        \* entity id -> weight it was settled with
    visit_order,    \* insertion order of visited
    paths,          \* the path records
    counter,        \* the tie-breaking counter
    xpc,            \* position of the expand_weighted call
    result,         \* what the call returned
    calls,          \* number of expand_weighted calls started
    first_result,   \* what the first of two calls returned
    \* ---- the caches (vdb_nanovectordb.py 18-96, graphrag.py 55-146,
    \*      server.py 84-147)
    cache_kind,     \* which of the three cache classes the object is
    ttl_seconds,    \* its TTL
    max_entries,    \* its capacity (maxsize)
    entries,        \* its dict, as the sequence of its items
    hits, misses,   \* its counters
    now,            \* what time.time() returns
    gets,           \* number of get calls made
    ops,            \* number of get and put calls made
    last,           \* the last operation, with the dict before it
    prev,           \* the operation before the last
    used,           \* number of distinct keys callers have passed so far
    recency,        \* the stored keys, least recently stored or hit first
    \* ---- LLMResponseCacheSingleton and GraphRAG (graphrag.py 55-146, 278-284)
    _instance,      \* the class attribute; 0 is None
    llm_objects,    \* the cache objects made so far, by identity
    constructed,    \* what the calls LLMResponseCacheSingleton() returned
    llm_response_cache, \* GraphRAG instance -> its llm_response_cache; 0 is None
    llm_ops,        \* number of upsert and get_by_id calls made
    glast,          \* the last operation
    gprev,          \* the operation before the last
    \* ---- NanoVectorDBStorage (vdb_nanovectordb.py 99-160)
    vpc,            \* position of the query call under way
    query,          \* its text
    size_at_start,  \* number of cached embeddings when it started
    max_batch_size, \* self._max_batch_size
    embedding_calls, \* number of embedding_func calls made
    vector_ops,     \* number of query and upsert calls made
    vlast,          \* the last call completed
    vprev,          \* the call completed before it
    \* ---- CommunityCache (server.py 187-357)
    reports,        \* collection -> its community report file
    iterdir_order,  \* the order iterdir() lists the collections in
    community_cache, \* the object: _communities and _keyword_index
    kpc,            \* "new" before initialize(), "ready" after
    search_query, search_max_results, search_max_communes,
                    \* the arguments of the last search call
    search_results, \* what it returned
    searches,       \* number of search calls made
    \* ---- concurrent query calls (vdb_nanovectordb.py 142-153)
    qpc,            \* task -> "idle", or "awaiting" the embedding function
    in_flight,      \* task -> the text of its query call under way
    invocations,    \* number of embedding_func calls made by query
    started,        \* number of query calls started
    qlast,          \* the last cache access made by a query call
    \* ---- reads of a loaded GraphIndex (graph_index.py 348-534)
    reads,          \* number of read calls made
    rlast           \* the last read call and its argument

svars == <<pc, kind, ret, sawNone, global, instances, loaderRuns, heldLocks,
           dataDirExists>>

lvars == <<disk, index, lpc, pending, loadList, initCalls, first_index,
           first_list>>

xvars == <<seed_entities, max_hops, max_results, commune_filter, include_chunks,
           heap, visited, visit_order, paths, counter, xpc, result, calls,
           first_result>>

cvars == <<cache_kind, ttl_seconds, max_entries, entries, hits, misses, now,
           gets, ops, last, prev, used, recency>>

gvars == <<_instance, llm_objects, constructed, llm_response_cache, llm_ops,
           glast, gprev>>

vvars == <<vpc, query, size_at_start, max_batch_size, embedding_calls,
           vector_ops, vlast, vprev>>

kvars == <<reports, iterdir_order, community_cache, kpc, search_query,
           search_max_results, search_max_communes, search_results, searches>>

qvars == <<qpc, in_flight, invocations, started, qlast>>

rvars == <<reads, rlast>>

vars == <<svars, lvars, xvars, cvars, gvars, vvars, kvars, qvars, rvars>>

(***************************************************************************)
(* Lazy singletons                                                         *)
(***************************************************************************)
NumCallers == 3
Callers == 1..NumCallers

\* "graph_index": server.ensure_graph_index_initialized
\* "community_cache": server.ensure_community_cache_initialized
\* "module_index": graph_index.get_graph_index
Kinds == {"graph_index", "community_cache", "module_index"}
LockedKinds == {"graph_index", "community_cache"}

NoInstance == 0

\* `_graph_index is not None` before the lock
IsInitialized(k) == global[k] # NoInstance

RecheckSkipped(k) == FALSE
\* `_graph_index is not None` inside `async with asyncio.Lock()`
RecheckUnderLock(k) == global[k] # NoInstance

\* initialize() walks DATA_PATH with Path.iterdir() outside any try block:
\* it raises when the directory is absent, and otherwise catches per collection.
InitializeRaises == ~dataDirExists

\* a tool handler starts awaiting the accessor
Call(p, k) ==
    /\ pc[p] = "idle"
    /\ pc' = [pc EXCEPT ![p] = "check1"]
    /\ kind' = [kind EXCEPT ![p] = k]
    /\ UNCHANGED <<ret, sawNone, global, instances, loaderRuns, heldLocks,
                   dataDirExists>>
    /\ UNCHANGED <<lvars, xvars, cvars, gvars, vvars, kvars, qvars, rvars>>

\* first check hits: return the global
FirstCheckHit(p) ==
    /\ pc[p] = "check1"
    /\ IsInitialized(kind[p])
    /\ pc' = [pc EXCEPT ![p] = "done"]
    /\ ret' = [ret EXCEPT ![p] = global[kind[p]]]
    /\ UNCHANGED <<kind, sawNone, global, instances, loaderRuns, heldLocks,
                   dataDirExists>>
    /\ UNCHANGED <<lvars, xvars, cvars, gvars, vvars, kvars, qvars, rvars>>

\* first check misses; the server accessors go on to `async with asyncio.Lock()`
FirstCheckMiss(p) ==
    /\ pc[p] = "check1"
    /\ kind[p] \in LockedKinds
    /\ ~IsInitialized(kind[p])
    /\ pc' = [pc EXCEPT ![p] = "lock"]
    /\ sawNone' = [sawNone EXCEPT ![p] = TRUE]
    /\ UNCHANGED <<kind, ret, global, instances, loaderRuns, heldLocks,
                   dataDirExists>>
    /\ UNCHANGED <<lvars, xvars, cvars, gvars, vvars, kvars, qvars, rvars>>

\* `async with asyncio.Lock()`: the lock is created by this very call, so it is
\* free and the acquire succeeds whatever the other callers hold
AcquireLock(p) ==
    /\ pc[p] = "lock"
    /\ heldLocks' = heldLocks \cup {p}
    /\ pc' = [pc EXCEPT ![p] = "check2"]
    /\ UNCHANGED <<kind, ret, sawNone, global, instances, loaderRuns,
                   dataDirExists>>
    /\ UNCHANGED <<lvars, xvars, cvars, gvars, vvars, kvars, qvars, rvars>>

\* second check hits: return the global, leaving the `async with`
SecondCheckHit(p) ==
    /\ pc[p] = "check2"
    /\ RecheckUnderLock(kind[p])
    /\ pc' = [pc EXCEPT ![p] = "done"]
    /\ ret' = [ret EXCEPT ![p] = global[kind[p]]]
    /\ heldLocks' = heldLocks \ {p}
    /\ UNCHANGED <<kind, sawNone, global, instances, loaderRuns, dataDirExists>>
    /\ UNCHANGED <<lvars, xvars, cvars, gvars, vvars, kvars, qvars, rvars>>

\* The global is assigned the new object before initialize() is awaited.
\* initialize() and the loaders it awaits do blocking file I/O only, so the
\* await runs to its end or to its exception without the event loop running
\* another task.
Construct(p, k, outcome) ==
    /\ instances' = [instances EXCEPT ![k] = Append(@, outcome)]
    /\ global' = [global EXCEPT ![k] = Len(instances[k]) + 1]
    /\ loaderRuns' = [loaderRuns EXCEPT ![k] = @ + 1]
    /\ heldLocks' = heldLocks \ {p}

\* server accessors: construct under the private lock, initialize completes
ConstructAndInitialize(p) ==
    /\ pc[p] = "check2"
    /\ ~RecheckUnderLock(kind[p])
    /\ ~InitializeRaises
    /\ Construct(p, kind[p], "ready")
    /\ pc' = [pc EXCEPT ![p] = "done"]
    /\ ret' = [ret EXCEPT ![p] = Len(instances[kind[p]]) + 1]
    /\ UNCHANGED <<kind, sawNone, dataDirExists>>
    /\ UNCHANGED <<lvars, xvars, cvars, gvars, vvars, kvars, qvars, rvars>>

\* server accessors: initialize raises, the exception leaves the `async with`
\* and reaches the caller; the global keeps the object
ConstructAndRaise(p) ==
    /\ pc[p] = "check2"
    /\ ~RecheckUnderLock(kind[p])
    /\ InitializeRaises
    /\ Construct(p, kind[p], "failed")
    /\ pc' = [pc EXCEPT ![p] = "raised"]
    /\ UNCHANGED <<kind, ret, sawNone, dataDirExists>>
    /\ UNCHANGED <<lvars, xvars, cvars, gvars, vvars, kvars, qvars, rvars>>

\* get_graph_index: no lock and no await between the check and the assignment
ModuleConstruct(p) ==
    /\ pc[p] = "check1"
    /\ kind[p] = "module_index"
    /\ ~IsInitialized(kind[p])
    /\ Construct(p, kind[p], IF InitializeRaises THEN "failed" ELSE "ready")
    /\ pc' = [pc EXCEPT ![p] = IF InitializeRaises THEN "raised" ELSE "done"]
    /\ ret' = [ret EXCEPT ![p] = IF InitializeRaises THEN NoInstance
                                 ELSE Len(instances[kind[p]]) + 1]
    /\ sawNone' = [sawNone EXCEPT ![p] = TRUE]
    /\ UNCHANGED <<kind, dataDirExists>>
    /\ UNCHANGED <<lvars, xvars, cvars, gvars, vvars, kvars, qvars, rvars>>

SNext ==
    \E p \in Callers :
        \/ \E k \in Kinds : Call(p, k)
        \/ FirstCheckHit(p)
        \/ FirstCheckMiss(p)
        \/ AcquireLock(p)
        \/ SecondCheckHit(p)
        \/ ConstructAndInitialize(p)
        \/ ConstructAndRaise(p)
        \/ ModuleConstruct(p)

(***************************************************************************)
(* Graph index: tables and string conversions                              *)
(***************************************************************************)
\* RELATIONSHIP_WEIGHTS.get(rel_type, 0.1), in tenths
RelationshipWeight(rel_type) ==
    CASE rel_type = "CONCERNE" -> 10
      [] rel_type = "HAS_SOURCE" -> 9
      [] rel_type = "SOURCED_BY" -> 9
      [] rel_type = "CONTRIBUE_A" -> 8
      [] rel_type = "EXPRIME" -> 7
      [] rel_type = "PROPOSE" -> 6
      [] rel_type = "FAIT_PARTIE_DE" -> 5
      [] rel_type = "APPARTIENT_A" -> 3
      [] rel_type = "RELATED_TO" -> 1
      [] OTHER -> 1

\* ENTITY_TYPE_PRIORITY.get(entity_type, 1) / 10.0, in tenths
TypePriority(entity_type) ==
    CASE entity_type = "COMMUNE" -> 10
      [] entity_type = "CONCEPT" -> 8
      [] entity_type = "THEME" -> 7
      [] entity_type = "CHUNK" -> 6
      [] entity_type = "ACTOR" -> 5
      [] entity_type = "ORGANIZATION" -> 5
      [] entity_type = "PERSON" -> 3
      [] entity_type = "LOCATION" -> 2
      [] entity_type = "UNKNOWN" -> 1
      [] OTHER -> 1

\* str.strip('"') on the strings the files of this model hold
StripQuotes(s) ==
    CASE s = "\"X\"" -> "X"
      [] s = "\"CONCEPT\"" -> "CONCEPT"
      [] s = "\"\"" -> ""
      [] OTHER -> s

\* str.strip() on the strings the files of this model hold
Strip(s) ==
    CASE s = " " -> ""
      [] s = "taxe " -> "taxe"
      [] s = "TAXE " -> "TAXE"
      [] s = " c2" -> "c2"
      [] OTHER -> s

\* str.upper() on the strings the files of this model hold
Upper(s) ==
    CASE s = "taxe" -> "TAXE"
      [] s = "Taxe" -> "TAXE"
      [] s = "taxe " -> "TAXE "
      [] s = "Impot" -> "IMPOT"
      [] s = "impot" -> "IMPOT"
      [] s = "nobody" -> "NOBODY"
      [] OTHER -> s

\* entity_name.upper().strip()
Normalize(name) == Strip(Upper(name))

\* source_id_raw.split('<SEP>')
SplitSep(raw) ==
    CASE raw = "c1<SEP> c2" -> <<"c1", " c2">>
      [] raw = "c1<SEP> " -> <<"c1", " ">>
      [] OTHER -> <<raw>>

\* f"CONTRIBUTION_{chunk_order_index}"
ContributionName(order) ==
    CASE order = 0 -> "CONTRIBUTION_0"
      [] order = 1 -> "CONTRIBUTION_1"
      [] OTHER -> "CONTRIBUTION_N"

\* dict helpers: d[k] = v and d.get(k, default)
Put(d, k, v) == [x \in DOMAIN d \cup {k} |-> IF x = k THEN v ELSE d[x]]
Get(d, k, default) == IF k \in DOMAIN d THEN d[k] ELSE default
EmptyDict == [x \in {} |-> 0]

\* GraphIndex.__init__
EmptyIndex ==
    [ adjacency |-> EmptyDict,          \* id -> sequence of EdgeInfo
      entities |-> EmptyDict,           \* id -> EntityMetadata
      name_index |-> EmptyDict,         \* normalized name -> id
      chunks |-> EmptyDict,             \* chunk id -> ChunkMetadata
      entity_source_ids |-> EmptyDict,  \* id -> sequence of chunk ids
      source_keys |-> <<>>,             \* insertion order of entity_source_ids
      loaded_communes |-> {},
      total_nodes |-> 0,
      total_edges |-> 0,
      total_chunks |-> 0 ]

\* get_data(elem, name): the attribute's text stripped of blanks and quotes,
\* '' when the element has no such attribute (absent is "" in the records)
GetData(elem, name) == StripQuotes(Strip(elem[name]))

\* EdgeInfo(target, rel_type, weight)
EdgeInfo(target, rel_type, weight) ==
    [target |-> target, rel_type |-> rel_type, weight |-> weight]

\* self._adjacency[key].append(edge) on a defaultdict(list)
AdjAppend(adjacency, key, edge) ==
    Put(adjacency, key, Append(Get(adjacency, key, <<>>), edge))

\* [s.strip() for s in source_id_raw.split('<SEP>') if s.strip()]
RECURSIVE StripAll(_)
StripAll(pieces) ==
    IF pieces = <<>> THEN <<>>
    ELSE LET rest == StripAll(Tail(pieces))
         IN  IF Strip(Head(pieces)) = "" THEN rest
             ELSE <<Strip(Head(pieces))>> \o rest

ParseSourceId(source_id_raw) == StripAll(SplitSep(source_id_raw))

\* one pass of the node loop of _load_commune; acc is [index, count]
ParseNode(acc, commune_id, node) ==
    LET node_id == StripQuotes(node.id)
        entity_name == IF GetData(node, "entity_name") # ""
                       THEN GetData(node, "entity_name") ELSE node_id
        entity_type == IF GetData(node, "entity_type") # ""
                       THEN GetData(node, "entity_type") ELSE "UNKNOWN"
        source_id_raw == GetData(node, "source_id")
        chunk_ids == ParseSourceId(source_id_raw)
        idx == acc.index
        withSource == source_id_raw # "" /\ chunk_ids # <<>>
    IN  IF node_id = "" THEN acc
        ELSE [ index |->
                 [idx EXCEPT
                    !.entities = Put(@, node_id,
                        [name |-> entity_name, entity_type |-> entity_type,
                         commune |-> commune_id, node_id |-> node_id]),
                    !.name_index = Put(@, Normalize(entity_name), node_id),
                    !.entity_source_ids =
                        IF withSource THEN Put(@, node_id, chunk_ids) ELSE @,
                    !.source_keys =
                        IF withSource /\ node_id \notin DOMAIN idx.entity_source_ids
                        THEN Append(@, node_id) ELSE @],
               count |-> acc.count + 1 ]

RECURSIVE ParseNodes(_, _, _)
ParseNodes(acc, commune_id, nodes) ==
    IF nodes = <<>> THEN acc
    ELSE ParseNodes(ParseNode(acc, commune_id, Head(nodes)), commune_id, Tail(nodes))

\* get_data(edge,'type') or get_data(edge,'relationship_type') or
\* get_data(edge,'label') or 'RELATED_TO'
EdgeRelType(edge) ==
    IF GetData(edge, "type") # "" THEN GetData(edge, "type")
    ELSE IF GetData(edge, "relationship_type") # ""
         THEN GetData(edge, "relationship_type")
    ELSE IF GetData(edge, "label") # "" THEN GetData(edge, "label")
    ELSE "RELATED_TO"

ForwardOnly(adjacency, src, tgt, rel_type, weight) ==
    AdjAppend(adjacency, src, EdgeInfo(tgt, rel_type, weight))
\* the two appends of "Bidirectional adjacency"
AppendBothWays(adjacency, src, tgt, rel_type, weight) ==
    AdjAppend(AdjAppend(adjacency, src, EdgeInfo(tgt, rel_type, weight)),
              tgt, EdgeInfo(src, rel_type, weight))

\* one pass of the edge loop of _load_commune; acc is [index, count]
ParseEdge(acc, edge) ==
    LET src == StripQuotes(edge.source)
        tgt == StripQuotes(edge.target)
        rel_type == EdgeRelType(edge)
        weight == RelationshipWeight(rel_type)
    IN  IF src = "" \/ tgt = "" THEN acc
        ELSE [ index |-> [acc.index EXCEPT
                   !.adjacency = AppendBothWays(@, src, tgt, rel_type, weight)],
               count |-> acc.count + 1 ]

RECURSIVE ParseEdges(_, _)
ParseEdges(acc, edges) ==
    IF edges = <<>> THEN acc
    ELSE ParseEdges(ParseEdge(acc, Head(edges)), Tail(edges))

\* one pass of the chunk loop of _load_commune_chunks; acc is [index, count]
StoreChunk(acc, commune_id, chunk) ==
    [ index |-> [acc.index EXCEPT
          !.chunks = Put(@, chunk.chunk_id,
              [chunk_id |-> chunk.chunk_id,
               chunk_order_index |-> chunk.chunk_order_index,
               commune |-> commune_id]),
          !.entities = Put(@, chunk.chunk_id,
              [name |-> ContributionName(chunk.chunk_order_index),
               entity_type |-> "CHUNK",
               commune |-> commune_id, node_id |-> chunk.chunk_id])],
      count |-> acc.count + 1 ]

\* "for chunk_id, chunk_info in chunks_data.items()"; acc is [index, count,
\* raised]: the loop ends at the first entry on which chunk_info.get raises
RECURSIVE StoreChunks(_, _, _)
StoreChunks(acc, commune_id, chunks) ==
    IF chunks = <<>> THEN acc
    ELSE IF ~Head(chunks).is_object THEN [acc EXCEPT !.raised = TRUE]
    ELSE LET stored == StoreChunk(acc, commune_id, Head(chunks))
         IN  StoreChunks([index |-> stored.index, count |-> stored.count,
                          raised |-> FALSE],
                         commune_id, Tail(chunks))

\* the inner loop "for chunk_id in chunk_ids" of the HAS_SOURCE pass
RECURSIVE LinkChunks(_, _, _)
LinkChunks(idx, entity_id, chunk_ids) ==
    IF chunk_ids = <<>> THEN idx
    ELSE LET chunk_id == Head(chunk_ids)
             linked ==
                 IF chunk_id \in DOMAIN idx.chunks
                 THEN [idx EXCEPT !.adjacency =
                         AdjAppend(
                           AdjAppend(@, entity_id,
                               EdgeInfo(chunk_id, "HAS_SOURCE",
                                        RelationshipWeight("HAS_SOURCE"))),
                           chunk_id,
                           EdgeInfo(entity_id, "SOURCED_BY",
                                    RelationshipWeight("HAS_SOURCE")))]
                 ELSE idx
         IN  LinkChunks(linked, entity_id, Tail(chunk_ids))

\* the outer loop "for entity_id, chunk_ids in self._entity_source_ids.items()"
RECURSIVE LinkSources(_, _, _)
LinkSources(idx, commune_id, keys) ==
    IF keys = <<>> THEN idx
    ELSE LET entity_id == Head(keys)
             linked ==
                 IF /\ entity_id \in DOMAIN idx.entities
                    /\ idx.entities[entity_id].commune = commune_id
                 THEN LinkChunks(idx, entity_id, idx.entity_source_ids[entity_id])
                 ELSE idx
         IN  LinkSources(linked, commune_id, Tail(keys))

\* _load_commune_chunks: [index, count, raised]; an exception of the chunk
\* loop is not caught here, so the HAS_SOURCE pass and the return are skipped
LoadCommuneChunks(idx, commune_id, chunks_file) ==
    IF chunks_file.status # "ok"
    THEN [index |-> idx, count |-> 0, raised |-> FALSE]
    ELSE LET stored == StoreChunks([index |-> idx, count |-> 0,
                                    raised |-> FALSE],
                                   commune_id, chunks_file.chunks)
         IN  IF stored.raised
             THEN [index |-> stored.index, count |-> 0, raised |-> TRUE]
             ELSE [ index |-> LinkSources(stored.index, commune_id,
                                          stored.index.source_keys),
                    count |-> stored.count, raised |-> FALSE ]

\* _load_commune; an exception out of _load_commune_chunks is caught by
\* `except Exception` and logged: what was written before it stays
LoadCommune(idx, commune_id, files) ==
    IF files.graph.status # "ok" THEN idx
    ELSE LET nodes == ParseNodes([index |-> idx, count |-> 0], commune_id,
                                 files.graph.nodes)
             edges == ParseEdges([index |-> nodes.index, count |-> 0],
                                 files.graph.edges)
             counted == [edges.index EXCEPT
                            !.total_nodes = @ + nodes.count,
                            !.total_edges = @ + edges.count,
                            !.loaded_communes = @ \cup {commune_id}]
             chunks == LoadCommuneChunks(counted, commune_id, files.chunks)
         IN  [chunks.index EXCEPT !.total_chunks = @ + chunks.count]

\* read API
\* a lookup that falls back on the first id stored when the id is unknown
NeighborsOfNearest(idx, entity_id) ==
    IF entity_id \in DOMAIN idx.adjacency \/ DOMAIN idx.adjacency = {}
    THEN Get(idx.adjacency, entity_id, <<>>)
    ELSE idx.adjacency[CHOOSE k \in DOMAIN idx.adjacency : TRUE]
\* self._adjacency.get(entity_id, [])
get_neighbors(idx, entity_id) == Get(idx.adjacency, entity_id, <<>>)
None == [none |-> TRUE]
get_entity(idx, entity_id) == Get(idx.entities, entity_id, None)
has_entity(idx, entity_id) ==
    entity_id \in DOMAIN idx.entities \/ entity_id \in DOMAIN idx.adjacency
\* get_entity_by_name: `if entity_id:` is false for a missing name and for ''
get_entity_by_name(idx, name) ==
    LET entity_id == Get(idx.name_index, Normalize(name), "")
    IN  IF entity_id # "" THEN Get(idx.entities, entity_id, None) ELSE None
get_chunk(idx, chunk_id) == Get(idx.chunks, chunk_id, None)
\* get_chunks_for_entity: the chunks of the parsed source ids that are stored
get_chunks_for_entity(idx, entity_id) ==
    LET chunk_ids == Get(idx.entity_source_ids, entity_id, <<>>)
        stored == SelectSeq(chunk_ids, LAMBDA c : c \in DOMAIN idx.chunks)
    IN  [i \in 1..Len(stored) |-> idx.chunks[stored[i]]]
\* get_entities_for_chunk: the non-chunk entities the SOURCED_BY entries of the
\* chunk's adjacency list lead to
get_entities_for_chunk(idx, chunk_id) ==
    LET edges == SelectSeq(get_neighbors(idx, chunk_id),
                     LAMBDA edge :
                        /\ edge.rel_type = "SOURCED_BY"
                        /\ edge.target \in DOMAIN idx.entities
                        /\ idx.entities[edge.target].entity_type # "CHUNK")
    IN  [i \in 1..Len(edges) |-> idx.entities[edges[i].target]]
stats(idx) ==
    [ total_nodes |-> idx.total_nodes, total_edges |-> idx.total_edges,
      total_chunks |-> idx.total_chunks,
      loaded_communes |-> Cardinality(idx.loaded_communes) ]

(***************************************************************************)
(* The collections on disk                                                 *)
(***************************************************************************)
Communes == {"A", "B"}
\* sorted(communes)
CommuneOrder == <<"A", "B">>

\* an id that edges may name although no graph file declares it as a node
DanglingId == "G"

NodeRecord(id, entity_name, entity_type, source_id) ==
    [id |-> id, entity_name |-> entity_name, entity_type |-> entity_type,
     source_id |-> source_id]
EdgeRecord(source, target, type, relationship_type, label) ==
    [source |-> source, target |-> target, type |-> type,
     relationship_type |-> relationship_type, label |-> label]
ChunkRecord(chunk_id, chunk_order_index) ==
    [chunk_id |-> chunk_id, chunk_order_index |-> chunk_order_index,
     is_object |-> TRUE]
\* an entry of the chunk store whose value is not a JSON object (null, a
\* string, a list): `chunk_info.get(...)` raises AttributeError
NonObjectChunk(chunk_id) ==
    [chunk_id |-> chunk_id, chunk_order_index |-> 0, is_object |-> FALSE]

\* the <node> elements a collection's graph file may hold, in file order
PaletteNodes(c) ==
    IF c = "A"
    THEN << NodeRecord("\"X\"", "", "\"CONCEPT\"", "c1"),
            NodeRecord("Y", "Taxe", "PERSON", "c1<SEP> c2") >>
    ELSE << NodeRecord("Y", "Impot", "COMMUNE", "c2"),
            NodeRecord("Z", "taxe ", "", "c1<SEP> ") >>

\* the <edge> elements a collection's graph file may hold, in file order
PaletteEdges(c) ==
    IF c = "A"
    THEN << EdgeRecord("\"X\"", "Y", "CONCERNE", "", ""),
            EdgeRecord("Y", "\"X\"", "", "FOO", ""),
            EdgeRecord("\"X\"", "\"X\"", "", "", ""),
            EdgeRecord("Y", "G", "", "", "PROPOSE") >>
    ELSE << EdgeRecord("Y", "Z", "EXPRIME", "", ""),
            EdgeRecord("Z", "Y", "CONCERNE", "", "") >>

\* the chunk stores a collection may have: the entries of the JSON object
PaletteChunks(c) ==
    IF c = "A"
    THEN { <<ChunkRecord("c1", 0)>>, <<ChunkRecord("c1", 0), ChunkRecord("c2", 1)>> }
    ELSE { <<ChunkRecord("c2", 0)>> }

RECURSIVE Pick(_, _, _)
\* the elements of seq at the positions in S, in order
Pick(seq, S, i) ==
    IF i > Len(seq) THEN <<>>
    ELSE (IF i \in S THEN <<seq[i]>> ELSE <<>>) \o Pick(seq, S, i + 1)

\* edges whose endpoints are nodes of the file, or the dangling id
Admissible(c, N) ==
    LET ids == {StripQuotes(PaletteNodes(c)[i].id) : i \in N} \cup {DanglingId}
    IN  { j \in 1..Len(PaletteEdges(c)) :
            /\ StripQuotes(PaletteEdges(c)[j].source) \in ids
            /\ StripQuotes(PaletteEdges(c)[j].target) \in ids }

NoGraph(status) == [status |-> status, nodes |-> <<>>, edges |-> <<>>]
NoChunks(status) == [status |-> status, chunks |-> <<>>]

\* graph_chunk_entity_relation.graphml of collection c: absent, not
\* well-formed XML, or a graph
GraphFiles(c) ==
    {NoGraph("missing"), NoGraph("malformed")} \cup
    UNION { { [status |-> "ok",
               nodes |-> Pick(PaletteNodes(c), N, 1),
               edges |-> Pick(PaletteEdges(c), E, 1)] :
              E \in SUBSET Admissible(c, N) } :
            N \in SUBSET (1..Len(PaletteNodes(c))) }

\* kv_store_text_chunks.json of collection c: absent, not JSON, or an object
ChunkFiles(c) ==
    {NoChunks("missing")} \cup
    (IF c = "A" THEN {NoChunks("malformed")} ELSE {}) \cup
    { [status |-> "ok", chunks |-> k] : k \in PaletteChunks(c) }

Disks ==
    { [c \in Communes |-> [graph |-> (IF c = "A" THEN ga ELSE gb),
                           chunks |-> (IF c = "A" THEN ka ELSE kb)]] :
        ga \in GraphFiles("A"), gb \in GraphFiles("B"),
        ka \in ChunkFiles("A"), kb \in ChunkFiles("B") }

\* with no data directory there is no file at all
EmptyDisk == [c \in Communes |-> [graph |-> NoGraph("missing"),
                                  chunks |-> NoChunks("missing")]]

(***************************************************************************)
(* GraphIndex.initialize                                                   *)
(***************************************************************************)
MaxInitCalls == 2

\* the commune_ids a caller may pass: the collections in any order
CommuneLists == {<<>>, <<"A">>, <<"B">>, <<"A", "B">>, <<"B", "A">>}

\* _discover_communes: the directories holding a graph file, sorted
Discover(d) ==
    SelectSeq(CommuneOrder, LAMBDA c : d[c].graph.status # "missing")
DiscoverCommunes == Discover(disk)

LIdle ==
    /\ index = EmptyIndex
    /\ lpc = "idle"
    /\ pending = <<>>
    /\ loadList = <<>>
    /\ initCalls = 0
    /\ first_index = EmptyIndex
    /\ first_list = <<>>

\* initialize(commune_ids=None) on an existing data directory
InitializeAll ==
    /\ lpc \in {"idle", "done"}
    /\ initCalls < MaxInitCalls
    /\ dataDirExists
    /\ lpc' = "loading"
    /\ pending' = DiscoverCommunes
    /\ loadList' = DiscoverCommunes
    /\ initCalls' = initCalls + 1
    /\ UNCHANGED <<disk, index, first_index, first_list>>
    /\ UNCHANGED <<svars, xvars, cvars, gvars, vvars, kvars, qvars, rvars>>

\* initialize(commune_ids=None) without a data directory: iterdir() raises
InitializeAllRaises ==
    /\ lpc \in {"idle", "done"}
    /\ initCalls < MaxInitCalls
    /\ ~dataDirExists
    /\ lpc' = "raised"
    /\ initCalls' = initCalls + 1
    /\ UNCHANGED <<disk, index, pending, loadList, first_index, first_list>>
    /\ UNCHANGED <<svars, xvars, cvars, gvars, vvars, kvars, qvars, rvars>>

\* initialize(commune_ids=ids)
InitializeList(ids) ==
    /\ lpc \in {"idle", "done"}
    /\ initCalls < MaxInitCalls
    /\ lpc' = "loading"
    /\ pending' = ids
    /\ loadList' = ids
    /\ initCalls' = initCalls + 1
    /\ UNCHANGED <<disk, index, first_index, first_list>>
    /\ UNCHANGED <<svars, xvars, cvars, gvars, vvars, kvars, qvars, rvars>>

\* a loop that gives up the rest of the list at a collection it cannot read
StopAtFaulty(ids, files) ==
    IF files.graph.status # "ok" THEN <<>> ELSE Tail(ids)
\* what the for loop of initialize still has to visit once _load_commune has
\* returned for the head of ids: _load_commune returns None on a missing
\* file and catches ParseError and Exception, so the loop goes on
RestOfList(ids, files) == Tail(ids)

\* one pass of "for commune_id in commune_ids: await self._load_commune(...)"
LoadNext ==
    /\ lpc = "loading"
    /\ pending # <<>>
    /\ index' = LoadCommune(index, Head(pending), disk[Head(pending)])
    /\ pending' = RestOfList(pending, disk[Head(pending)])
    /\ UNCHANGED <<disk, lpc, loadList, initCalls, first_index, first_list>>
    /\ UNCHANGED <<svars, xvars, cvars, gvars, vvars, kvars, qvars, rvars>>

\* the loop is over: initialize returns
FinishInitialize ==
    /\ lpc = "loading"
    /\ pending = <<>>
    /\ lpc' = "done"
    /\ first_index' = IF initCalls = 1 THEN index ELSE first_index
    /\ first_list' = IF initCalls = 1 THEN loadList ELSE first_list
    /\ UNCHANGED <<disk, index, pending, loadList, initCalls>>
    /\ UNCHANGED <<svars, xvars, cvars, gvars, vvars, kvars, qvars, rvars>>

LNext ==
    \/ InitializeAll
    \/ InitializeAllRaises
    \/ \E ids \in CommuneLists : InitializeList(ids)
    \/ LoadNext
    \/ FinishInitialize

(***************************************************************************)
(* GraphIndex.expand_weighted                                              *)
(***************************************************************************)
MaxSeeds == 2
MaxHops == 2
MaxResults == 2
\* max_results: int = 200
DefaultMaxResults == 200

\* ids a caller may pass as seeds: an entity, a chunk, and an id that is known
\* only when some edge names it
SeedIds == {"X", "c1", "G"}
SeedLists == UNION { [1..n -> SeedIds] : n \in 0..MaxSeeds }
HopValues == 0..MaxHops
ResultValues == (0..MaxResults) \cup {DefaultMaxResults}

\* commune_filter: None, or a set of collection ids
NoFilter == [given |-> FALSE, communes |-> {}]
Filters ==
    {NoFilter} \cup
    { [given |-> TRUE, communes |-> F] : F \in {{}, {"A"}, {"B"}} }

\* `if commune_filter:`: None and the empty set are both false
FilterApplies(filter) == filter.given /\ filter.communes # {}

\* heapq orders the entries as tuples (neg_weight, depth, counter, ...); the
\* counter is unique, so the later components are never compared
EntryLess(a, b) ==
    \/ a.neg_weight < b.neg_weight
    \/ a.neg_weight = b.neg_weight /\ a.depth < b.depth
    \/ a.neg_weight = b.neg_weight /\ a.depth = b.depth /\ a.counter < b.counter

\* a queue that hands out its last entry: the least weight first
HeapBottom(h) == CHOOSE e \in h : \A f \in h \ {e} : EntryLess(f, e)
\* the entry heapq.heappop returns
HeapTop(h) == CHOOSE e \in h : \A f \in h \ {e} : EntryLess(e, f)

HeapEntry(neg_weight, depth, cnt, entity_id, came_from) ==
    [neg_weight |-> neg_weight, depth |-> depth, counter |-> cnt,
     entity_id |-> entity_id, came_from |-> came_from]

RECURSIVE PushSeeds(_, _, _)
\* "Initialize with seeds"; acc is [heap, counter]
PushSeeds(acc, idx, seeds) ==
    IF seeds = <<>> THEN acc
    ELSE LET seed == Head(seeds)
             pushed ==
                 IF has_entity(idx, seed)
                 THEN [heap |-> acc.heap \cup
                                  {HeapEntry(0, 0, acc.counter, seed, None)},
                       counter |-> acc.counter + 1]
                 ELSE acc
         IN  PushSeeds(pushed, idx, Tail(seeds))

ChunksNeverSkipped(include, target_entity) == FALSE
\* `not include_chunks and target_entity and target_entity.entity_type == "CHUNK"`
SkipsChunk(include, target_entity) ==
    ~include /\ target_entity # None /\ target_entity.entity_type = "CHUNK"

\* `if commune_filter: if target_entity and target_entity.commune not in commune_filter`
SkipsCommune(filter, target_entity) ==
    /\ FilterApplies(filter)
    /\ target_entity # None
    /\ target_entity.commune \notin filter.communes

NoTypeBonus(target_entity) == 0
\* type_bonus, in tenths
TypeBonus(target_entity) ==
    IF target_entity # None THEN TypePriority(target_entity.entity_type) ELSE 0

\* a push that weighs the hop alone, leaving out the weight of its source
PushFromZero(acc, idx, vis, entity_id, current_weight, depth, edge, filter, include) ==
    LET target_entity == get_entity(idx, edge.target)
    IN  IF edge.target \in DOMAIN vis THEN acc
        ELSE IF SkipsChunk(include, target_entity) THEN acc
        ELSE IF SkipsCommune(filter, target_entity) THEN acc
        ELSE [ heap |-> acc.heap \cup
                 { HeapEntry(-(edge.weight + TypeBonus(target_entity)),
                             depth + 1, acc.counter, edge.target,
                             [source |-> entity_id, rel_type |-> edge.rel_type,
                              weight |-> edge.weight]) },
               counter |-> acc.counter + 1 ]
\* one pass of "for edge in self.get_neighbors(entity_id)"; acc is [heap, counter]
PushNeighbor(acc, idx, vis, entity_id, current_weight, depth, edge, filter, include) ==
    LET target_entity == get_entity(idx, edge.target)
    IN  IF edge.target \in DOMAIN vis THEN acc
        ELSE IF SkipsChunk(include, target_entity) THEN acc
        ELSE IF SkipsCommune(filter, target_entity) THEN acc
        ELSE [ heap |-> acc.heap \cup
                 { HeapEntry(-(current_weight + edge.weight + TypeBonus(target_entity)),
                             depth + 1, acc.counter, edge.target,
                             [source |-> entity_id, rel_type |-> edge.rel_type,
                              weight |-> edge.weight]) },
               counter |-> acc.counter + 1 ]

RECURSIVE PushNeighbors(_, _, _, _, _, _, _, _, _)
PushNeighbors(acc, idx, vis, entity_id, current_weight, depth, edges, filter, include) ==
    IF edges = <<>> THEN acc
    ELSE PushNeighbors(
            PushNeighbor(acc, idx, vis, entity_id, current_weight, depth,
                         Head(edges), filter, include),
            idx, vis, entity_id, current_weight, depth, Tail(edges), filter, include)

RECURSIVE BuildEntities(_, _, _)
\* "Build entity list with metadata": the visited ids, in insertion order,
\* that have metadata
BuildEntities(idx, vis, order) ==
    IF order = <<>> THEN <<>>
    ELSE LET entity_id == Head(order)
             metadata == get_entity(idx, entity_id)
             rest == BuildEntities(idx, vis, Tail(order))
         IN  IF metadata # None
             THEN << [id |-> entity_id, name |-> metadata.name,
                      type |-> metadata.entity_type,
                      commune |-> metadata.commune,
                      traversal_weight |-> vis[entity_id]] >> \o rest
             ELSE rest

RECURSIVE InsertByWeight(_, _)
\* x goes after every element that does not weigh less (the sort is stable)
InsertByWeight(sorted, x) ==
    IF sorted = <<>> THEN <<x>>
    ELSE IF Head(sorted).traversal_weight >= x.traversal_weight
         THEN <<Head(sorted)>> \o InsertByWeight(Tail(sorted), x)
         ELSE <<x>> \o sorted

RECURSIVE SortByWeight(_, _)
\* entities.sort(key=lambda x: x['traversal_weight'], reverse=True)
SortByWeight(sorted, rest) ==
    IF rest = <<>> THEN sorted
    ELSE SortByWeight(InsertByWeight(sorted, Head(rest)), Tail(rest))

HopLimitIgnored(depth, hops) == FALSE
\* `if depth >= max_hops: continue`
AtHopLimit(depth, hops) == depth >= hops

StaleVisited == visited
\* `visited: Dict[str, float] = {}`
FreshVisited == EmptyDict

LoopUnbounded == heap # {}
\* `while heap and len(visited) < max_results`
LoopContinues ==
    heap # {} /\ Cardinality(DOMAIN visited) < max_results

NoResult == [entities |-> <<>>, paths |-> <<>>, returned |-> FALSE]

\* the locals of expand_weighted before a call
XLocals ==
    /\ heap = {}
    /\ visited = EmptyDict
    /\ visit_order = <<>>
    /\ paths = <<>>
    /\ counter = 0
    /\ xpc = "idle"
    /\ result = NoResult
    /\ calls = 0
    /\ first_result = NoResult

\* no call made: default arguments, empty locals
XIdle ==
    /\ seed_entities = <<>>
    /\ max_hops = 0
    /\ max_results = 0
    /\ commune_filter = NoFilter
    /\ include_chunks = TRUE
    /\ XLocals

\* the locals of a call, after "Initialize with seeds"
EnterCall ==
    LET seeded == PushSeeds([heap |-> {}, counter |-> 0], index, seed_entities)
    IN  /\ heap' = seeded.heap
        /\ counter' = seeded.counter
        /\ visited' = FreshVisited
        /\ visit_order' = <<>>
        /\ paths' = <<>>
        /\ xpc' = "loop"
        /\ calls' = calls + 1
        /\ result' = NoResult

\* expand_weighted is called
Begin ==
    /\ xpc = "idle"
    /\ EnterCall
    /\ UNCHANGED <<seed_entities, max_hops, max_results, commune_filter,
                   include_chunks, first_result>>
    /\ UNCHANGED <<svars, lvars, cvars, gvars, vvars, kvars, qvars, rvars>>

\* a skip that leaves the entry in the queue
PopSkipKeeps ==
    /\ xpc = "loop"
    /\ LoopContinues
    /\ HeapTop(heap).entity_id \in DOMAIN visited
    /\ UNCHANGED vars
\* the popped entry's entity is visited already: `continue`
PopSkip ==
    /\ xpc = "loop"
    /\ LoopContinues
    /\ HeapTop(heap).entity_id \in DOMAIN visited
    /\ heap' = heap \ {HeapTop(heap)}
    /\ UNCHANGED <<visited, visit_order, paths, counter, xpc, result, calls>>
    /\ UNCHANGED <<seed_entities, max_hops, max_results, commune_filter,
                   include_chunks, first_result>>
    /\ UNCHANGED <<svars, lvars, cvars, gvars, vvars, kvars, qvars, rvars>>

\* a settle that keeps no record of the edge it came through
SettleNoRecord(top) ==
    /\ visited' = Put(visited, top.entity_id, -top.neg_weight)
    /\ visit_order' = Append(visit_order, top.entity_id)
    /\ paths' = paths
\* visited[entity_id] = current_weight, and the path record if it came
\* through an edge
Settle(top) ==
    /\ visited' = Put(visited, top.entity_id, -top.neg_weight)
    /\ visit_order' = Append(visit_order, top.entity_id)
    /\ paths' = IF top.came_from # None
                THEN Append(paths,
                        [source |-> top.came_from.source,
                         target |-> top.entity_id,
                         type |-> top.came_from.rel_type,
                         hop |-> top.depth,
                         weight |-> top.came_from.weight])
                ELSE paths

\* the popped entry is settled at depth >= max_hops: not expanded
PopSettle ==
    /\ xpc = "loop"
    /\ LoopContinues
    /\ HeapTop(heap).entity_id \notin DOMAIN visited
    /\ AtHopLimit(HeapTop(heap).depth, max_hops)
    /\ Settle(HeapTop(heap))
    /\ heap' = heap \ {HeapTop(heap)}
    /\ UNCHANGED <<counter, xpc, result, calls>>
    /\ UNCHANGED <<seed_entities, max_hops, max_results, commune_filter,
                   include_chunks, first_result>>
    /\ UNCHANGED <<svars, lvars, cvars, gvars, vvars, kvars, qvars, rvars>>

\* the popped entry is settled and its neighbors pushed
PopExpand ==
    /\ xpc = "loop"
    /\ LoopContinues
    /\ HeapTop(heap).entity_id \notin DOMAIN visited
    /\ ~AtHopLimit(HeapTop(heap).depth, max_hops)
    /\ Settle(HeapTop(heap))
    /\ LET top == HeapTop(heap)
           pushed == PushNeighbors(
                        [heap |-> heap \ {top}, counter |-> counter], index,
                        Put(visited, top.entity_id, -top.neg_weight),
                        top.entity_id, -top.neg_weight, top.depth,
                        get_neighbors(index, top.entity_id),
                        commune_filter, include_chunks)
       IN  /\ heap' = pushed.heap
           /\ counter' = pushed.counter
    /\ UNCHANGED <<xpc, result, calls>>
    /\ UNCHANGED <<seed_entities, max_hops, max_results, commune_filter,
                   include_chunks, first_result>>
    /\ UNCHANGED <<svars, lvars, cvars, gvars, vvars, kvars, qvars, rvars>>

\* the loop ends; the entity list is built and sorted; the call returns
Return ==
    /\ xpc = "loop"
    /\ ~LoopContinues
    /\ result' = [entities |-> SortByWeight(<<>>,
                                  BuildEntities(index, visited, visit_order)),
                  paths |-> paths, returned |-> TRUE]
    /\ xpc' = "done"
    /\ UNCHANGED <<heap, visited, visit_order, paths, counter, calls>>
    /\ UNCHANGED <<seed_entities, max_hops, max_results, commune_filter,
                   include_chunks, first_result>>
    /\ UNCHANGED <<svars, lvars, cvars, gvars, vvars, kvars, qvars, rvars>>

\* expand_weighted is called a second time with the same arguments
CallAgain ==
    /\ xpc = "done"
    /\ calls = 1
    /\ first_result' = result
    /\ EnterCall
    /\ UNCHANGED <<seed_entities, max_hops, max_results, commune_filter,
                   include_chunks>>
    /\ UNCHANGED <<svars, lvars, cvars, gvars, vvars, kvars, qvars, rvars>>

XNext == Begin \/ PopSkip \/ PopSettle \/ PopExpand \/ Return \/ CallAgain

\* the path record appended when an entry that came through an edge settles
PathRecord(top) ==
    [source |-> top.came_from.source, target |-> top.entity_id,
     type |-> top.came_from.rel_type, hop |-> top.depth,
     weight |-> top.came_from.weight]

RECURSIVE ExpandLoop(_, _, _, _, _, _)
\* the while loop of expand_weighted run to its end from the locals st
\* ([heap, counter, visited, visit_order, paths])
ExpandLoop(st, idx, hops, limit, filter, include) ==
    IF ~(st.heap # {} /\ Cardinality(DOMAIN st.visited) < limit) THEN st
    ELSE LET top == HeapTop(st.heap)
             popped == st.heap \ {top}
             weight == -top.neg_weight
             vis == Put(st.visited, top.entity_id, weight)
             settled ==
                 [st EXCEPT !.heap = popped, !.visited = vis,
                            !.visit_order = Append(@, top.entity_id),
                            !.paths = IF top.came_from # None
                                      THEN Append(@, PathRecord(top)) ELSE @]
             pushed == PushNeighbors(
                          [heap |-> popped, counter |-> st.counter], idx, vis,
                          top.entity_id, weight, top.depth,
                          get_neighbors(idx, top.entity_id), filter, include)
         IN  IF top.entity_id \in DOMAIN st.visited
             THEN ExpandLoop([st EXCEPT !.heap = popped],
                             idx, hops, limit, filter, include)
             ELSE IF AtHopLimit(top.depth, hops)
             THEN ExpandLoop(settled, idx, hops, limit, filter, include)
             ELSE ExpandLoop([settled EXCEPT !.heap = pushed.heap,
                                             !.counter = pushed.counter],
                             idx, hops, limit, filter, include)

\* expand_weighted as a function of the index and its arguments: what the
\* call returns, with the visited map it ends with
expand_weighted(idx, seeds, hops, limit, filter, include) ==
    LET seeded == PushSeeds([heap |-> {}, counter |-> 0], idx, seeds)
        final == ExpandLoop([heap |-> seeded.heap, counter |-> seeded.counter,
                             visited |-> EmptyDict, visit_order |-> <<>>,
                             paths |-> <<>>],
                            idx, hops, limit, filter, include)
    IN  [entities |-> SortByWeight(<<>>,
                         BuildEntities(idx, final.visited, final.visit_order)),
         paths |-> final.paths, visited |-> final.visited]

RECURSIVE LoadAll(_, _, _)
\* the index after initialize() has loaded the collections ids from disk d
LoadAll(idx, ids, d) ==
    IF ids = <<>> THEN idx
    ELSE LoadAll(LoadCommune(idx, Head(ids), d[Head(ids)]), Tail(ids), d)

\* the disks the traversal is run on: collection A declares X and Y with any
\* of its edges between distinct ids, collection B is Z alone or Y and Z with
\* both its edges, and A's chunk store is absent or holds c1 and c2
ExpandDisks ==
    { d \in Disks :
        /\ d["A"].graph.status = "ok" /\ Len(d["A"].graph.nodes) = 2
        /\ \A i \in DOMAIN d["A"].graph.edges :
              d["A"].graph.edges[i].source # d["A"].graph.edges[i].target
        /\ d["B"].graph.status = "ok"
        /\ \/ Len(d["B"].graph.nodes) = 1 /\ d["B"].graph.nodes[1].id = "Z"
           \/ Len(d["B"].graph.nodes) = 2 /\ Len(d["B"].graph.edges) = 2
        /\ d["A"].chunks.status = "missing" \/ Len(d["A"].chunks.chunks) = 2
        /\ d["B"].chunks.status = "missing" }

\* expand_weighted's arguments
XArguments ==
    /\ seed_entities \in SeedLists
    /\ max_hops \in HopValues
    /\ max_results \in ResultValues
    /\ commune_filter \in Filters
    /\ include_chunks \in BOOLEAN

\* the index ensure_graph_index_initialized leaves: initialize() over all
\* the collections found on disk
LoadedIndex(d) == LoadAll(EmptyIndex, Discover(d), d)

(***************************************************************************)
(* Reads of a loaded index (graph_index.py 348-534)                        *)
(***************************************************************************)
MaxReads == 2

\* the ids and names readers pass: known ones and unknown ones
ReadIds == {"X", "Y", "G", "c1", "c2", "nobody"}
ReadNames == {"taxe", "X", "nobody"}

\* self._adjacency[entity_id] on the defaultdict(list): a missing key is
\* inserted with an empty list
AfterSubscript(adjacency, entity_id) ==
    IF entity_id \in DOMAIN adjacency THEN adjacency
    ELSE Put(adjacency, entity_id, <<>>)
\* the defaultdict after `self._adjacency.get(entity_id, [])`: get never
\* calls the default factory, so no key is inserted
AfterLookup(adjacency, entity_id) == adjacency

RECURSIVE AfterLookups(_, _)
\* the defaultdict after get_neighbors was called for every id of ids
AfterLookups(adjacency, ids) ==
    IF ids = {} THEN adjacency
    ELSE LET id == CHOOSE i \in ids : TRUE
         IN  AfterLookups(AfterLookup(adjacency, id), ids \ {id})

\* the ids a call of expand_weighted that returned out calls get_neighbors
\* for: those settled at a depth below max_hops
Expanded(out, hops) ==
    {id \in DOMAIN out.visited :
        LET to == {i \in DOMAIN out.paths : out.paths[i].target = id}
        IN  IF to = {} THEN 0 < hops
            ELSE \A i \in to : out.paths[i].hop < hops}

RIdle ==
    /\ reads = 0
    /\ rlast = [op |-> "none"]

\* a call that reads one of the maps with .get or `in`
ReadCall(op, arg) ==
    /\ lpc = "done"
    /\ reads < MaxReads
    /\ reads' = reads + 1
    /\ rlast' = [op |-> op, arg |-> arg]
    /\ UNCHANGED <<disk, lpc, pending, loadList, initCalls, first_index,
                   first_list>>
    /\ UNCHANGED <<svars, xvars, cvars, gvars, vvars, kvars, qvars>>

\* get_neighbors(entity_id)
GetNeighbors(entity_id) ==
    /\ ReadCall("get_neighbors", entity_id)
    /\ index' = [index EXCEPT !.adjacency = AfterLookup(@, entity_id)]

\* get_entities_for_chunk(chunk_id): `for edge in self.get_neighbors(chunk_id)`
GetEntitiesForChunk(chunk_id) ==
    /\ ReadCall("get_entities_for_chunk", chunk_id)
    /\ index' = [index EXCEPT !.adjacency = AfterLookup(@, chunk_id)]

\* get_entity, has_entity, get_chunk, get_chunks_for_entity: dict.get and `in`
\* on plain dicts, and `entity_id in self._adjacency`
GetOther(op, id) ==
    /\ op \in {"get_entity", "has_entity", "get_chunk", "get_chunks_for_entity"}
    /\ ReadCall(op, id)
    /\ index' = index

\* get_entity_by_name(name)
GetEntityByName(name) ==
    /\ ReadCall("get_entity_by_name", name)
    /\ index' = index

\* expand_weighted(seeds, max_hops=hops, include_chunks=include)
ExpandWeighted(seeds, hops, include) ==
    /\ ReadCall("expand_weighted", seeds)
    /\ LET out == expand_weighted(index, seeds, hops, DefaultMaxResults,
                                  NoFilter, include)
       IN  index' = [index EXCEPT
                        !.adjacency = AfterLookups(@, Expanded(out, hops))]

RNext ==
    \/ \E id \in ReadIds : GetNeighbors(id)
    \/ \E id \in ReadIds : GetEntitiesForChunk(id)
    \/ \E id \in ReadIds,
          op \in {"get_entity", "has_entity", "get_chunk", "get_chunks_for_entity"} :
          GetOther(op, id)
    \/ \E name \in ReadNames : GetEntityByName(name)
    \/ \E seeds \in SeedLists, hops \in HopValues, include \in BOOLEAN :
          ExpandWeighted(seeds, hops, include)

(***************************************************************************)
(* The caches: EmbeddingCache, LLMResponseCacheSingleton, GraphRAGCache    *)
(***************************************************************************)
MaxOps == 4
MaxLRUOps == 5
MaxTime == 1
MaxTTL == 1
MaxCapacity == 3

CacheKinds == {"embedding", "llm", "graphrag"}

Min(a, b) == IF a <= b THEN a ELSE b

\* the texts, request keys and working directories callers pass, in the order
\* callers first use them
KeyOrder == <<"t1", "t2", "t3", "t4">>
CacheKeys == {KeyOrder[i] : i \in DOMAIN KeyOrder}
\* the embeddings, responses and instances stored
CacheValues == {[content |-> "v1"], [content |-> "v2"]}

\* hashlib.sha256(text.encode('utf-8')).hexdigest()[:16]
_hash_text(text) ==
    CASE text = "t1" -> "9f1c"
      [] text = "t2" -> "03ab"
      [] text = "t3" -> "e270"
      [] text = "t4" -> "5d4e"
      [] OTHER -> "0000"

\* the key an entry is stored under
StoreKey(ck, key) == IF ck = "embedding" THEN _hash_text(key) ELSE key

\* a dict (or OrderedDict) is the sequence of its items in iteration order
CacheEntry(key, value, timestamp) ==
    [key |-> key, value |-> value, timestamp |-> timestamp]

\* position of key in the dict, 0 if absent
IndexOf(items, key) ==
    IF \E i \in DOMAIN items : items[i].key = key
    THEN CHOOSE i \in DOMAIN items : items[i].key = key
    ELSE 0

\* del d[key]
RemoveAt(items, i) ==
    SubSeq(items, 1, i - 1) \o SubSeq(items, i + 1, Len(items))

AssignIfAbsent(items, key, value, timestamp) ==
    IF \E i \in DOMAIN items : items[i].key = key
    THEN items
    ELSE Append(items, [key |-> key, value |-> value, timestamp |-> timestamp])
\* d[key] = (value, timestamp): an existing key keeps its position
Assign(items, key, value, timestamp) ==
    IF IndexOf(items, key) = 0
    THEN Append(items, CacheEntry(key, value, timestamp))
    ELSE [items EXCEPT ![IndexOf(items, key)] = CacheEntry(key, value, timestamp)]

\* `time.time() - timestamp > self._ttl_seconds`
Expired(elapsed, ttl) == elapsed > ttl

\* min(self._cache.keys(), key=lambda k: self._cache[k][1]): the first of the
\* keys with the smallest timestamp
OldestIndex(items) ==
    CHOOSE i \in DOMAIN items :
        /\ \A j \in DOMAIN items : items[i].timestamp <= items[j].timestamp
        /\ \A j \in 1..(i - 1) : items[j].timestamp > items[i].timestamp

RECURSIVE SortedByTimestamp(_)
\* sorted(self._timestamps.keys(), key=...): stable, smallest first
SortedByTimestamp(items) ==
    IF items = <<>> THEN <<>>
    ELSE <<items[OldestIndex(items)]>> \o
         SortedByTimestamp(RemoveAt(items, OldestIndex(items)))

\* "Remove oldest 10%": len(sorted_keys) // 10
TenthOf == 10

RECURSIVE RemoveKeys(_, _)
RemoveKeys(items, doomed) ==
    IF doomed = <<>> THEN items
    ELSE RemoveKeys(RemoveAt(items, IndexOf(items, Head(doomed).key)), Tail(doomed))

\* an eviction that waits until the cache is over its capacity
EvictedWhenOver(items, capacity) ==
    IF Len(items) > capacity THEN <<items[OldestIndex(items)]>> ELSE <<>>
\* EmbeddingCache.put: "Evict oldest if at capacity"; the entries evicted
EvictedEmbedding(items, capacity) ==
    IF Len(items) >= capacity THEN <<items[OldestIndex(items)]>> ELSE <<>>

\* LLMResponseCacheSingleton.set: "Evict oldest entries if at capacity"
EvictedLLM(items, capacity) ==
    IF Len(items) >= capacity
    THEN SubSeq(SortedByTimestamp(items), 1, Len(items) \div TenthOf)
    ELSE <<>>

\* GraphRAGCache.put: `while len(self._cache) >= self.maxsize`, oldest first
EvictedGraphRAG(items, capacity) ==
    IF Len(items) >= capacity
    THEN SubSeq(items, 1, Len(items) - capacity + 1)
    ELSE <<>>

Evicted(ck, items, capacity) ==
    CASE ck = "embedding" -> EvictedEmbedding(items, capacity)
      [] ck = "llm" -> EvictedLLM(items, capacity)
      [] ck = "graphrag" -> EvictedGraphRAG(items, capacity)

\* put / set: evict, then store with the current time
CachePut(ck, items, key, value, time, capacity) ==
    Assign(RemoveKeys(items, Evicted(ck, items, capacity)),
           StoreKey(ck, key), value, time)

\* self._cache.move_to_end(working_dir), GraphRAGCache only
MoveToEnd(ck, items, i) ==
    IF ck = "graphrag" THEN Append(RemoveAt(items, i), items[i]) ELSE items

ExpiredCountedAsNothing(outcome) == IF outcome = "expired" THEN 0 ELSE 1
\* `self._misses += 1` on an absent and on an expired key
MissCount(outcome) == 1

\* get: [items, outcome, value]
CacheGet(ck, items, key, time, ttl) ==
    LET i == IndexOf(items, StoreKey(ck, key))
    IN  IF i = 0
        THEN [items |-> items, outcome |-> "absent", value |-> None]
        ELSE IF Expired(time - items[i].timestamp, ttl)
        THEN [items |-> RemoveAt(items, i), outcome |-> "expired", value |-> None]
        ELSE [items |-> MoveToEnd(ck, items, i), outcome |-> "hit",
              value |-> items[i].value]

NoOp == [op |-> "none"]

\* a cache just constructed
CEmpty ==
    /\ entries = <<>>
    /\ hits = 0
    /\ misses = 0
    /\ gets = 0
    /\ ops = 0
    /\ last = NoOp
    /\ prev = NoOp
    /\ used = 0
    /\ recency = <<>>

CIdle ==
    /\ cache_kind = "embedding"
    /\ ttl_seconds = 0
    /\ max_entries = 1
    /\ now = 0
    /\ CEmpty

\* the keys of items
KeysOf(items) == {items[i].key : i \in DOMAIN items}

\* recency once key was stored or hit and only the keys in items remain
Touched(order, key, items) ==
    SelectSeq(order, LAMBDA k : k # key /\ k \in KeysOf(items)) \o <<key>>

\* recency once only the keys in items remain
Remaining(order, items) == SelectSeq(order, LAMBDA k : k \in KeysOf(items))

\* what is remembered of the operation before the last one
Brief(o) ==
    IF o.op \in {"get", "put"}
    THEN [op |-> o.op, key |-> o.key, value |-> o.value]
    ELSE [op |-> o.op]

\* a caller passes a key passed before or the next new one
PassKey(key) ==
    \E i \in 1..Min(used + 1, Len(KeyOrder)) :
        /\ key = KeyOrder[i]
        /\ used' = IF i > used THEN i ELSE used

\* get(key), as one of the first limit calls
CGet(limit, key) ==
    /\ ops < limit
    /\ PassKey(key)
    /\ LET got == CacheGet(cache_kind, entries, key, now, ttl_seconds)
       IN  /\ entries' = got.items
           /\ hits' = IF got.outcome = "hit" THEN hits + 1 ELSE hits
           /\ misses' = IF got.outcome = "hit" THEN misses
                        ELSE misses + MissCount(got.outcome)
           /\ last' = [op |-> "get", key |-> key, value |-> got.value,
                       outcome |-> got.outcome, before |-> entries,
                       evicted |-> <<>>, lru |-> recency]
           /\ recency' = IF got.outcome = "hit"
                         THEN Touched(recency, StoreKey(cache_kind, key), got.items)
                         ELSE Remaining(recency, got.items)
    /\ gets' = gets + 1
    /\ ops' = ops + 1
    /\ prev' = Brief(last)
    /\ UNCHANGED <<cache_kind, ttl_seconds, max_entries, now>>
    /\ UNCHANGED <<svars, lvars, xvars, gvars, vvars, kvars, qvars, rvars>>

\* put(key, value) / set(key, value), as one of the first limit calls
CPut(limit, key, value) ==
    /\ ops < limit
    /\ PassKey(key)
    /\ entries' = CachePut(cache_kind, entries, key, value, now, max_entries)
    /\ last' = [op |-> "put", key |-> key, value |-> value,
                outcome |-> "stored", before |-> entries,
                evicted |-> Evicted(cache_kind, entries, max_entries),
                lru |-> recency]
    /\ recency' = Touched(recency, StoreKey(cache_kind, key), entries')
    /\ ops' = ops + 1
    /\ prev' = Brief(last)
    /\ UNCHANGED <<hits, misses, gets>>
    /\ UNCHANGED <<cache_kind, ttl_seconds, max_entries, now>>
    /\ UNCHANGED <<svars, lvars, xvars, gvars, vvars, kvars, qvars, rvars>>

\* time.time() advances
CTick ==
    /\ now < MaxTime
    /\ now' = now + 1
    /\ last' = [op |-> "tick"]
    /\ prev' = Brief(last)
    /\ UNCHANGED <<entries, hits, misses, gets, ops, used, recency>>
    /\ UNCHANGED <<cache_kind, ttl_seconds, max_entries>>
    /\ UNCHANGED <<svars, lvars, xvars, gvars, vvars, kvars, qvars, rvars>>

CNext ==
    \/ \E key \in CacheKeys : CGet(MaxOps, key)
    \/ \E key \in CacheKeys, value \in CacheValues : CPut(MaxOps, key, value)
    \/ CTick

\* the same calls on the GraphRAG instance cache, one call longer
LRUNext ==
    \/ \E key \in CacheKeys : CGet(MaxLRUOps, key)
    \/ \E key \in CacheKeys, value \in CacheValues : CPut(MaxLRUOps, key, value)
    \/ CTick

(***************************************************************************)
(* LLMResponseCacheSingleton and the GraphRAG instances that use it        *)
(***************************************************************************)
MaxConstructions == 2
MaxRags == 2
MaxLLMOps == 3

\* _ttl_seconds: int = 3600
LLMTTLSeconds == 3600
\* _max_entries: int = 1000
LLMMaxEntries == 1000

\* the object `_llm_response_cache_singleton` is bound to when the module is
\* imported
GlobalSingleton == 1

\* cls._instance._cache = {}, _timestamps = {}, _hits = 0, _misses = 0
FreshObject == [items |-> <<>>, hits |-> 0, misses |-> 0]

\* the request keys and the batches upsert is given
LLMKeys == {"t1", "t2"}
LLMBatches ==
    { <<[key |-> k, value |-> v]>> : k \in LLMKeys, v \in CacheValues }
    \cup { << [key |-> "t1", value |-> v], [key |-> "t2", value |-> v] >> :
             v \in CacheValues }

AlwaysNew(instance, objects) ==
    [ instance |-> Len(objects) + 1,
      objects |-> Append(objects, [items |-> <<>>, hits |-> 0, misses |-> 0]),
      returned |-> Len(objects) + 1 ]
\* __new__: [instance, objects, returned]; instance 0 is None
SingletonNew(instance, objects) ==
    IF instance = 0
    THEN [ instance |-> Len(objects) + 1,
           objects |-> Append(objects, FreshObject),
           returned |-> Len(objects) + 1 ]
    ELSE [ instance |-> instance, objects |-> objects, returned |-> instance ]

\* GraphRAG.__post_init__: self.llm_response_cache; 0 is None
PostInitCache(enable_llm_cache) ==
    IF enable_llm_cache THEN GlobalSingleton ELSE 0

\* LLMResponseCacheSingleton.get on object o
LLMGet(o, key, time) ==
    LET got == CacheGet("llm", o.items, key, time, LLMTTLSeconds)
    IN  [ object |-> [ items |-> got.items,
                       hits |-> IF got.outcome = "hit" THEN o.hits + 1 ELSE o.hits,
                       misses |-> IF got.outcome = "hit" THEN o.misses
                                  ELSE o.misses + MissCount(got.outcome) ],
          value |-> got.value ]

RECURSIVE LLMUpsert(_, _, _)
\* LLMResponseCacheSingleton.upsert: `for k, v in data.items(): await self.set(k, v)`
LLMUpsert(o, data, time) ==
    IF data = <<>> THEN o
    ELSE LLMUpsert(
            [o EXCEPT !.items = CachePut("llm", @, Head(data).key,
                                         Head(data).value, time, LLMMaxEntries)],
            Tail(data), time)

\* LLMResponseCacheSingleton.stats
LLMStats(o) ==
    [ size |-> Len(o.items), max_entries |-> LLMMaxEntries,
      hits |-> o.hits, misses |-> o.misses ]

GIdle ==
    /\ _instance = 0
    /\ llm_objects = <<>>
    /\ constructed = <<>>
    /\ llm_response_cache = <<>>
    /\ llm_ops = 0
    /\ glast = NoOp
    /\ gprev = NoOp

\* the module is imported: `_llm_response_cache_singleton = LLMResponseCacheSingleton()`
GImported ==
    LET made == SingletonNew(0, <<>>)
    IN  /\ _instance = made.instance
        /\ llm_objects = made.objects
        /\ constructed = <<made.returned>>
        /\ llm_response_cache = <<>>
        /\ llm_ops = 0
        /\ glast = NoOp
        /\ gprev = NoOp

\* LLMResponseCacheSingleton() is called
ConstructCache ==
    /\ Len(constructed) < MaxConstructions + 1
    /\ LET made == SingletonNew(_instance, llm_objects)
       IN  /\ _instance' = made.instance
           /\ llm_objects' = made.objects
           /\ constructed' = Append(constructed, made.returned)
    /\ glast' = [op |-> "construct"]
    /\ gprev' = glast
    /\ UNCHANGED <<llm_response_cache, llm_ops>>
    /\ UNCHANGED <<svars, lvars, xvars, cvars, vvars, kvars, qvars, rvars>>

\* GraphRAG(enable_llm_cache=...) is created
CreateGraphRAG(enable_llm_cache) ==
    /\ Len(llm_response_cache) < MaxRags
    /\ llm_response_cache' =
          Append(llm_response_cache, PostInitCache(enable_llm_cache))
    /\ glast' = [op |-> "create"]
    /\ gprev' = glast
    /\ UNCHANGED <<_instance, llm_objects, constructed, llm_ops>>
    /\ UNCHANGED <<svars, lvars, xvars, cvars, vvars, kvars, qvars, rvars>>

\* rag.llm_response_cache.upsert(data)
RagUpsert(rag, data) ==
    /\ llm_ops < MaxLLMOps
    /\ rag \in DOMAIN llm_response_cache
    /\ llm_response_cache[rag] # 0
    /\ llm_objects' = [llm_objects EXCEPT ![llm_response_cache[rag]] =
                          LLMUpsert(@, data, now)]
    /\ llm_ops' = llm_ops + 1
    /\ glast' = [op |-> "upsert", rag |-> rag, data |-> data]
    /\ gprev' = glast
    /\ UNCHANGED <<_instance, constructed, llm_response_cache>>
    /\ UNCHANGED <<svars, lvars, xvars, cvars, vvars, kvars, qvars, rvars>>

\* rag.llm_response_cache.get_by_id(key)
RagGetById(rag, key) ==
    /\ llm_ops < MaxLLMOps
    /\ rag \in DOMAIN llm_response_cache
    /\ llm_response_cache[rag] # 0
    /\ LET got == LLMGet(llm_objects[llm_response_cache[rag]], key, now)
       IN  /\ llm_objects' = [llm_objects EXCEPT ![llm_response_cache[rag]] =
                                 got.object]
           /\ glast' = [op |-> "get_by_id", rag |-> rag, key |-> key,
                        value |-> got.value]
    /\ llm_ops' = llm_ops + 1
    /\ gprev' = glast
    /\ UNCHANGED <<_instance, constructed, llm_response_cache>>
    /\ UNCHANGED <<svars, lvars, xvars, cvars, vvars, kvars, qvars, rvars>>

GNext ==
    \/ ConstructCache
    \/ \E enable_llm_cache \in BOOLEAN : CreateGraphRAG(enable_llm_cache)
    \/ \E rag \in 1..MaxRags, data \in LLMBatches : RagUpsert(rag, data)
    \/ \E rag \in 1..MaxRags, key \in LLMKeys : RagGetById(rag, key)

(***************************************************************************)
(* NanoVectorDBStorage.query and upsert over the global embedding cache    *)
(***************************************************************************)
MaxVectorOps == 4
MaxBatchSize == 2

\* _embedding_cache = EmbeddingCache(ttl_seconds=86400, max_entries=10000)
EmbeddingTTLSeconds == 86400
EmbeddingMaxEntries == 10000

\* the texts queried and the contents of the documents upserted
VectorTexts == {"t1", "t2"}
\* the `content` fields of data.values(), in order
UpsertContents == UNION { [1..n -> VectorTexts] : n \in 0..2 }

\* batches: range(0, len(contents), self._max_batch_size)
BatchCount(n, batch_size) == (n + batch_size - 1) \div batch_size

QueryNotStored(items, text, embedding, time) == items
\* `_embedding_cache.put(query, embedding)`
QueryStored(items, text, embedding, time) ==
    CachePut("embedding", items, text, embedding, time, EmbeddingMaxEntries)

\* `cached_embedding = _embedding_cache.get(query)`
QueryLookup(items, text, time) ==
    CacheGet("embedding", items, text, time, EmbeddingTTLSeconds)

VIdle ==
    /\ vpc = "idle"
    /\ query = ""
    /\ size_at_start = 0
    /\ max_batch_size = 1
    /\ embedding_calls = 0
    /\ vector_ops = 0
    /\ vlast = NoOp
    /\ vprev = NoOp

\* query(text): the embedding is cached
QueryHit(text) ==
    /\ vpc = "idle"
    /\ vector_ops < MaxVectorOps
    /\ LET got == QueryLookup(entries, text, now)
       IN  /\ got.outcome = "hit"
           /\ entries' = got.items
           /\ hits' = hits + 1
           /\ vlast' = [op |-> "query", text |-> text, hit |-> TRUE,
                        calls |-> 0, size_before |-> Len(entries),
                        size_after |-> Len(got.items)]
    /\ vprev' = vlast
    /\ vector_ops' = vector_ops + 1
    /\ UNCHANGED <<vpc, query, size_at_start, max_batch_size, embedding_calls>>
    /\ UNCHANGED <<cache_kind, ttl_seconds, max_entries, misses, now, gets, ops,
                   last, prev, used, recency>>
    /\ UNCHANGED <<svars, lvars, xvars, gvars, kvars, qvars, rvars>>

\* query(text): not cached; `await self.embedding_func([query])` is started
QueryMiss(text) ==
    /\ vpc = "idle"
    /\ vector_ops < MaxVectorOps
    /\ LET got == QueryLookup(entries, text, now)
       IN  /\ got.outcome # "hit"
           /\ entries' = got.items
           /\ misses' = misses + MissCount(got.outcome)
    /\ vpc' = "embedding"
    /\ query' = text
    /\ size_at_start' = Len(entries)
    /\ embedding_calls' = embedding_calls + 1
    /\ vector_ops' = vector_ops + 1
    /\ UNCHANGED <<max_batch_size, vlast, vprev>>
    /\ UNCHANGED <<cache_kind, ttl_seconds, max_entries, hits, now, gets, ops,
                   last, prev, used, recency>>
    /\ UNCHANGED <<svars, lvars, xvars, gvars, kvars, qvars, rvars>>

\* the embedding arrives and is cached; the query goes on to the client
QueryEmbedded(embedding) ==
    /\ vpc = "embedding"
    /\ entries' = QueryStored(entries, query, embedding, now)
    /\ vlast' = [op |-> "query", text |-> query, hit |-> FALSE, calls |-> 1,
                 size_before |-> size_at_start, size_after |-> Len(entries')]
    /\ vprev' = vlast
    /\ vpc' = "idle"
    /\ query' = ""
    /\ UNCHANGED <<size_at_start, max_batch_size, embedding_calls, vector_ops>>
    /\ UNCHANGED <<cache_kind, ttl_seconds, max_entries, hits, misses, now, gets,
                   ops, last, prev, used, recency>>
    /\ UNCHANGED <<svars, lvars, xvars, gvars, kvars, qvars, rvars>>

\* upsert(data): the contents are embedded batch by batch and handed to the
\* client; the embedding cache is not consulted
Upsert(contents) ==
    /\ vpc = "idle"
    /\ vector_ops < MaxVectorOps
    /\ embedding_calls' =
          IF contents = <<>> THEN embedding_calls
          ELSE embedding_calls + BatchCount(Len(contents), max_batch_size)
    /\ vlast' = [op |-> "upsert", contents |-> contents,
                 calls |-> embedding_calls' - embedding_calls,
                 before |-> entries]
    /\ vprev' = vlast
    /\ vector_ops' = vector_ops + 1
    /\ UNCHANGED <<vpc, query, size_at_start, max_batch_size>>
    /\ UNCHANGED cvars
    /\ UNCHANGED <<svars, lvars, xvars, gvars, kvars, qvars, rvars>>

\* time.time() advances
VTick ==
    /\ now < MaxTime
    /\ now' = now + 1
    /\ UNCHANGED <<vpc, query, size_at_start, max_batch_size, embedding_calls,
                   vector_ops, vlast, vprev>>
    /\ UNCHANGED <<cache_kind, ttl_seconds, max_entries, entries, hits, misses,
                   gets, ops, last, prev, used, recency>>
    /\ UNCHANGED <<svars, lvars, xvars, gvars, kvars, qvars, rvars>>

VNext ==
    \/ \E text \in VectorTexts : QueryHit(text)
    \/ \E text \in VectorTexts : QueryMiss(text)
    \/ \E embedding \in CacheValues : QueryEmbedded(embedding)
    \/ \E contents \in UpsertContents : Upsert(contents)
    \/ VTick

(***************************************************************************)
(* Concurrent NanoVectorDBStorage.query calls (vdb_nanovectordb.py 142-153) *)
(* Each call is a coroutine on one event loop: the code up to the await of  *)
(* the embedding function runs as one step, the code after it as another.   *)
(***************************************************************************)
NumTasks == 2
MaxQueries == 3
Tasks == 1..NumTasks

QIdle ==
    /\ qpc = [t \in Tasks |-> "idle"]
    /\ in_flight = [t \in Tasks |-> ""]
    /\ invocations = 0
    /\ started = 0
    /\ qlast = NoOp

\* the tasks suspended at `await self.embedding_func([query])` for text
Awaiting(text) == {t \in Tasks : qpc[t] = "awaiting" /\ in_flight[t] = text}

\* query(text) by task t up to the await: `_embedding_cache.get(query)`, and on
\* a miss the embedding function is called and the task suspended
QueryStart(t, text) ==
    /\ qpc[t] = "idle"
    /\ started < MaxQueries
    /\ LET got == CacheGet("embedding", entries, text, now, ttl_seconds)
       IN  /\ entries' = got.items
           /\ IF got.outcome = "hit"
              THEN /\ hits' = hits + 1
                   /\ UNCHANGED <<misses, qpc, in_flight, invocations>>
              ELSE /\ misses' = misses + MissCount(got.outcome)
                   /\ qpc' = [qpc EXCEPT ![t] = "awaiting"]
                   /\ in_flight' = [in_flight EXCEPT ![t] = text]
                   /\ invocations' = invocations + 1
                   /\ UNCHANGED hits
           /\ qlast' = [op |-> "get", task |-> t, key |-> text,
                        outcome |-> got.outcome,
                        concurrent |-> Awaiting(text) # {}]
    /\ started' = started + 1
    /\ UNCHANGED <<cache_kind, ttl_seconds, max_entries, now, gets, ops, last,
                   prev, used, recency>>
    /\ UNCHANGED <<svars, lvars, xvars, gvars, vvars, kvars, rvars>>

\* the embedding of task t arrives: `_embedding_cache.put(query, embedding)`
QueryResume(t, embedding) ==
    /\ qpc[t] = "awaiting"
    /\ entries' = CachePut("embedding", entries, in_flight[t], embedding, now,
                           max_entries)
    /\ qlast' = [op |-> "put", task |-> t, key |-> in_flight[t],
                 before |-> entries,
                 evicted |-> Evicted("embedding", entries, max_entries)]
    /\ qpc' = [qpc EXCEPT ![t] = "idle"]
    /\ in_flight' = [in_flight EXCEPT ![t] = ""]
    /\ UNCHANGED <<invocations, started>>
    /\ UNCHANGED <<cache_kind, ttl_seconds, max_entries, hits, misses, now, gets,
                   ops, last, prev, used, recency>>
    /\ UNCHANGED <<svars, lvars, xvars, gvars, vvars, kvars, rvars>>

\* time.time() advances
QTick ==
    /\ now < MaxTime
    /\ now' = now + 1
    /\ UNCHANGED qvars
    /\ UNCHANGED <<cache_kind, ttl_seconds, max_entries, entries, hits, misses,
                   gets, ops, last, prev, used, recency>>
    /\ UNCHANGED <<svars, lvars, xvars, gvars, vvars, kvars, rvars>>

QNext ==
    \/ \E t \in Tasks, text \in VectorTexts : QueryStart(t, text)
    \/ \E t \in Tasks, embedding \in CacheValues : QueryResume(t, embedding)
    \/ QTick

(***************************************************************************)
(* CommunityCache: keyword index and search (server.py 187-357)            *)
(* A title and a summary are kept as the sequence of their words.          *)
(***************************************************************************)
MaxSearches == 1
MaxResultsArg == 2
MaxCommunesArg == 2
\* max_results=15 of select_communities_by_keywords, max_communes: int = 50
DefaultSearchResults == 15
DefaultMaxCommunes == 50
\* `if rating < 4.0`
MinRating == 4
\* title match = 3x weight, summary match = 1x weight
TitleScore == 3
SummaryScore == 1

\* str.lower() on the words the reports of this model hold
Lower(w) ==
    CASE w = "Parti" -> "parti"
      [] w = "Taxe" -> "taxe"
      [] OTHER -> w

\* the words of fewer than 3 characters, which \b\w{3,}\b does not match
ShortWords == {"de"}
\* the stop words among the words of this model
StopWords == {"les", "de"}

\* `keyword in text`: the keyword is a substring of the text, that is of one
\* of its words
Within(keyword, word) ==
    \/ keyword = word
    \/ keyword = "art" /\ word = "parti"
Contains(text, keyword) ==
    \E i \in DOMAIN text : Within(keyword, Lower(text[i]))

\* set(re.findall(r'\b\w{3,}\b', text.lower())) - stop_words
ExtractKeywords(text) ==
    {Lower(text[i]) : i \in DOMAIN text} \ (ShortWords \cup StopWords)

\* one entry of kv_store_community_reports.json
ReportEntry(community_id, has_report, title, summary, rating) ==
    [community_id |-> community_id, has_report |-> has_report,
     title |-> title, summary |-> summary, rating |-> rating,
     rating_is_number |-> TRUE]
\* an entry whose report gives the rating as text ("rating": "high"):
\* `rating < 4.0` raises TypeError
TextRating(community_id, title, summary) ==
    [community_id |-> community_id, has_report |-> TRUE,
     title |-> title, summary |-> summary, rating |-> 0,
     rating_is_number |-> FALSE]

\* the entries a collection's report file may hold, in file order
PaletteReports(c) ==
    IF c = "A"
    THEN << ReportEntry("0", TRUE, <<"Parti", "art">>, <<>>, 5),
            ReportEntry("1", TRUE, <<"Parti">>, <<"art">>, 5),
            ReportEntry("2", TRUE, <<"Taxe">>, <<"les", "art">>, 3),
            ReportEntry("3", TRUE, <<"taxe", "art">>, <<"taxe", "de">>, 5) >>
    ELSE << ReportEntry("0", TRUE, <<"taxe">>, <<>>, 4),
            ReportEntry("1", TRUE, <<>>, <<"taxe">>, 4),
            ReportEntry("2", FALSE, <<>>, <<>>, 0) >>

\* kv_store_community_reports.json of collection c: absent, not JSON, or an
\* object
ReportFiles(c) ==
    {[status |-> "missing", entries |-> <<>>]} \cup
    (IF c = "A" THEN {[status |-> "malformed", entries |-> <<>>]} ELSE {}) \cup
    { [status |-> "ok", entries |-> Pick(PaletteReports(c), N, 1)] :
        N \in SUBSET (1..Len(PaletteReports(c))) }

ReportDisks ==
    { d \in [Communes -> UNION {ReportFiles(c) : c \in Communes}] :
        \A c \in Communes : d[c] \in ReportFiles(c) }

\* the orders self.data_path.iterdir() may list the collections in
IterdirOrders == {<<"A", "B">>, <<"B", "A">>}

\* the queries, as the sequence of their words
SearchQueries == {<<"art">>, <<"Taxe">>, <<"art", "taxe">>, <<"les", "de">>}
SearchResultArgs == (0..MaxResultsArg) \cup {DefaultSearchResults}
SearchCommuneArgs == (0..MaxCommunesArg) \cup {DefaultMaxCommunes}

\* CommunityCache.__init__
EmptyCommunityCache == [_communities |-> EmptyDict, _keyword_index |-> EmptyDict]

\* the stored record of a community
StoredCommunity(commune_id, entry) ==
    [commune_id |-> commune_id, community_id |-> entry.community_id,
     title |-> entry.title, summary |-> entry.summary, rating |-> entry.rating]

\* title_score + summary_score of a keyword
KeywordScore(title, summary, keyword) ==
    (IF Contains(title, keyword) THEN TitleScore ELSE 0)
    + (IF Contains(summary, keyword) THEN SummaryScore ELSE 0)

\* "Build keyword index" for one community: one append per keyword
IndexKeywords(keyword_index, commune_id, entry) ==
    LET keywords == ExtractKeywords(entry.title \o entry.summary)
    IN  [k \in DOMAIN keyword_index \cup
               {w \in keywords :
                  KeywordScore(entry.title, entry.summary, w) > 0} |->
            IF k \in keywords /\ KeywordScore(entry.title, entry.summary, k) > 0
            THEN Append(Get(keyword_index, k, <<>>),
                        [commune_id |-> commune_id,
                         community_id |-> entry.community_id,
                         score |-> KeywordScore(entry.title, entry.summary, k)])
            ELSE keyword_index[k]]

\* one pass of "for comm_id, comm_data in data.items()"
LoadReport(cache, commune_id, entry) ==
    IF ~entry.has_report THEN cache
    ELSE IF entry.rating < MinRating THEN cache
    ELSE [ _communities |->
               Put(cache._communities, <<commune_id, entry.community_id>>,
                   StoredCommunity(commune_id, entry)),
           _keyword_index |->
               IndexKeywords(cache._keyword_index, commune_id, entry) ]

\* the exception of one pass ends the loop: `except Exception ... continue`
\* goes on with the next collection
ReportRaises(entry) == entry.has_report /\ ~entry.rating_is_number

RECURSIVE LoadReports(_, _, _)
LoadReports(cache, commune_id, file_entries) ==
    IF file_entries = <<>> THEN cache
    ELSE IF ReportRaises(Head(file_entries)) THEN cache
    ELSE LoadReports(LoadReport(cache, commune_id, Head(file_entries)),
                     commune_id, Tail(file_entries))

RECURSIVE RefreshCache(_, _, _)
\* _refresh_cache after the two clear() calls: the collections that have a
\* report file, in iterdir order; a file that is not JSON is skipped
RefreshCache(cache, order, d) ==
    IF order = <<>> THEN cache
    ELSE LET c == Head(order)
             loaded == IF d[c].status = "ok"
                       THEN LoadReports(cache, c, d[c].entries) ELSE cache
         IN  RefreshCache(loaded, Tail(order), d)

RECURSIVE AddScores(_, _)
\* `scores[(commune_id, comm_id)] += base_score` over one keyword's list;
\* scores is the sequence of the dict's items in insertion order
AddScores(scores, postings) ==
    IF postings = <<>> THEN scores
    ELSE LET p == Head(postings)
             key == <<p.commune_id, p.community_id>>
             at == {i \in DOMAIN scores : scores[i].key = key}
             added ==
                 IF at = {}
                 THEN Append(scores, [key |-> key, score |-> p.score])
                 ELSE [i \in DOMAIN scores |->
                          IF i \in at
                          THEN [scores[i] EXCEPT !.score = @ + p.score]
                          ELSE scores[i]]
         IN  AddScores(added, Tail(postings))

RECURSIVE AggregateScores(_, _, _)
\* "Aggregate scores": words is the order the set query_words iterates in
AggregateScores(scores, cache, words) ==
    IF words = <<>> THEN scores
    ELSE AggregateScores(
            AddScores(scores, Get(cache._keyword_index, Head(words), <<>>)),
            cache, Tail(words))

RECURSIVE InsertByScore(_, _)
\* x goes after every item that does not score less (the sort is stable)
InsertByScore(sorted, x) ==
    IF sorted = <<>> THEN <<x>>
    ELSE IF Head(sorted).score >= x.score
         THEN <<Head(sorted)>> \o InsertByScore(Tail(sorted), x)
         ELSE <<x>> \o sorted

RECURSIVE SortByScore(_, _)
\* sorted(scores.items(), key=lambda x: x[1], reverse=True)
SortByScore(sorted, rest) ==
    IF rest = <<>> THEN sorted
    ELSE SortByScore(InsertByScore(sorted, Head(rest)), Tail(rest))

\* `if commune_id in seen_communes and len(seen_communes) >= max_communes`
SkipsSeen(commune_id, seen_communes, limit) ==
    commune_id \in seen_communes /\ Cardinality(seen_communes) >= limit

RECURSIVE CollectResults(_, _, _, _, _, _)
\* the loop over sorted_matches; acc is [results, seen_communes]
CollectResults(acc, cache, matches, result_limit, commune_limit, i) ==
    IF i > Len(matches) THEN acc
    ELSE IF Len(acc.results) >= result_limit THEN acc
    ELSE LET key == matches[i].key
             commune_id == key[1]
         IN  IF SkipsSeen(commune_id, acc.seen_communes, commune_limit)
             THEN CollectResults(acc, cache, matches, result_limit,
                                 commune_limit, i + 1)
             ELSE IF key \in DOMAIN cache._communities
             THEN CollectResults(
                     [results |-> Append(acc.results,
                          [community |-> cache._communities[key],
                           score |-> matches[i].score]),
                      seen_communes |-> acc.seen_communes \cup {commune_id}],
                     cache, matches, result_limit, commune_limit, i + 1)
             ELSE CollectResults(acc, cache, matches, result_limit,
                                 commune_limit, i + 1)

\* the orders a set of words may iterate in
RECURSIVE Orderings(_)
Orderings(S) ==
    IF S = {} THEN {<<>>}
    ELSE UNION { { <<w>> \o rest : rest \in Orderings(S \ {w}) } : w \in S }

\* CommunityCache.search with query_words iterating in the order words
SearchIn(cache, words, result_limit, commune_limit) ==
    IF words = <<>> THEN <<>>
    ELSE CollectResults([results |-> <<>>, seen_communes |-> {}], cache,
                        SortByScore(<<>>, AggregateScores(<<>>, cache, words)),
                        result_limit, commune_limit, 1).results

KIdle ==
    /\ reports = [c \in Communes |-> [status |-> "missing", entries |-> <<>>]]
    /\ iterdir_order = <<"A", "B">>
    /\ community_cache = EmptyCommunityCache
    /\ kpc = "new"
    /\ search_query = <<>>
    /\ search_max_results = 0
    /\ search_max_communes = 0
    /\ search_results = <<>>
    /\ searches = 0

\* initialize(): await self._refresh_cache()
Refresh ==
    /\ kpc = "new"
    /\ community_cache' = RefreshCache(EmptyCommunityCache, iterdir_order, reports)
    /\ kpc' = "ready"
    /\ UNCHANGED <<reports, iterdir_order, search_query, search_max_results,
                   search_max_communes, search_results, searches>>
    /\ UNCHANGED <<svars, lvars, xvars, cvars, gvars, vvars, qvars, rvars>>

\* search(query, max_results, max_communes)
Search(q, result_limit, commune_limit) ==
    /\ kpc = "ready"
    /\ searches < MaxSearches
    /\ \E words \in Orderings(ExtractKeywords(q)) :
          search_results' = SearchIn(community_cache, words, result_limit,
                                     commune_limit)
    /\ search_query' = q
    /\ search_max_results' = result_limit
    /\ search_max_communes' = commune_limit
    /\ searches' = searches + 1
    /\ UNCHANGED <<reports, iterdir_order, community_cache, kpc>>
    /\ UNCHANGED <<svars, lvars, xvars, cvars, gvars, vvars, qvars, rvars>>

KNext ==
    \/ Refresh
    \/ \E q \in SearchQueries, result_limit \in SearchResultArgs,
          commune_limit \in SearchCommuneArgs :
          Search(q, result_limit, commune_limit)

(***************************************************************************)
(* Specifications                                                          *)
(***************************************************************************)
SIdle ==
    /\ pc = [p \in Callers |-> "idle"]
    /\ kind = [p \in Callers |-> "graph_index"]
    /\ ret = [p \in Callers |-> NoInstance]
    /\ sawNone = [p \in Callers |-> FALSE]
    /\ global = [k \in Kinds |-> NoInstance]
    /\ instances = [k \in Kinds |-> <<>>]
    /\ loaderRuns = [k \in Kinds |-> 0]
    /\ heldLocks = {}

SInit ==
    /\ SIdle
    /\ KIdle
    /\ dataDirExists \in BOOLEAN
    /\ disk = EmptyDisk
    /\ LIdle
    /\ XIdle
    /\ CIdle
    /\ GIdle
    /\ VIdle
    /\ QIdle
    /\ RIdle

SpecSingleton == SInit /\ [][SNext]_vars

LInit ==
    /\ SIdle
    /\ KIdle
    /\ LIdle
    /\ dataDirExists \in BOOLEAN
    /\ disk \in (IF dataDirExists THEN Disks ELSE {EmptyDisk})
    /\ XIdle
    /\ CIdle
    /\ GIdle
    /\ VIdle
    /\ QIdle
    /\ RIdle

SpecLoad == LInit /\ [][LNext]_vars

\* a loaded index and the arguments of an expand_weighted call, which is made
\* twice
XInit ==
    /\ SIdle
    /\ KIdle
    /\ dataDirExists = TRUE
    /\ disk \in ExpandDisks
    /\ index = LoadedIndex(disk)
    /\ lpc = "done"
    /\ pending = <<>>
    /\ loadList = Discover(disk)
    /\ initCalls = 1
    /\ first_index = LoadedIndex(disk)
    /\ first_list = Discover(disk)
    /\ XArguments
    /\ XLocals
    /\ CIdle
    /\ GIdle
    /\ VIdle
    /\ QIdle
    /\ RIdle

SpecExpand == XInit /\ [][XNext]_vars

\* the disks termination is checked on: collection A alone, with X and Y and
\* any of its edges, the self-loop on X among them; the adjacency lists are
\* two-way, so every edge closes a cycle, and two edges join X and Y
LoopDisks ==
    { d \in Disks :
        /\ d["A"].graph.status = "ok" /\ Len(d["A"].graph.nodes) = 2
        /\ d["A"].chunks.status = "missing" \/ Len(d["A"].chunks.chunks) = 2
        /\ d["B"].graph.status = "missing"
        /\ d["B"].chunks.status = "missing" }

\* a loaded index and the arguments of a call without collection filter
TInit ==
    /\ SIdle
    /\ KIdle
    /\ dataDirExists = TRUE
    /\ disk \in LoopDisks
    /\ index = LoadedIndex(disk)
    /\ lpc = "done"
    /\ pending = <<>>
    /\ loadList = Discover(disk)
    /\ initCalls = 1
    /\ first_index = LoadedIndex(disk)
    /\ first_list = Discover(disk)
    /\ seed_entities \in SeedLists
    /\ max_hops \in HopValues
    /\ max_results \in ResultValues
    /\ commune_filter = NoFilter
    /\ include_chunks \in BOOLEAN
    /\ XLocals
    /\ CIdle
    /\ GIdle
    /\ VIdle
    /\ QIdle
    /\ RIdle

\* one pass of the while loop, or the code after it
LoopStep == PopSkip \/ PopSettle \/ PopExpand \/ Return

\* the call is synchronous code: once in the loop it goes on running
SpecTerminate == TInit /\ [][XNext]_vars /\ WF_vars(LoopStep)

\* a cache of one of the three classes, just constructed with a TTL and a
\* capacity
CInit ==
    /\ SIdle
    /\ KIdle
    /\ dataDirExists = TRUE
    /\ disk = EmptyDisk
    /\ LIdle
    /\ XIdle
    /\ cache_kind \in CacheKinds
    /\ ttl_seconds \in 0..MaxTTL
    /\ max_entries \in 1..MaxCapacity
    /\ now = 0
    /\ CEmpty
    /\ GIdle
    /\ VIdle
    /\ QIdle
    /\ RIdle

SpecCache == CInit /\ [][CNext]_vars

\* the GraphRAG instance cache, just constructed
LRUInit ==
    /\ SIdle
    /\ KIdle
    /\ dataDirExists = TRUE
    /\ disk = EmptyDisk
    /\ LIdle
    /\ XIdle
    /\ cache_kind = "graphrag"
    /\ ttl_seconds \in 0..MaxTTL
    /\ max_entries \in 1..MaxCapacity
    /\ now = 0
    /\ CEmpty
    /\ GIdle
    /\ VIdle
    /\ QIdle
    /\ RIdle

SpecLRU == LRUInit /\ [][LRUNext]_vars

\* graphrag.py has been imported
GInit ==
    /\ SIdle
    /\ KIdle
    /\ dataDirExists = TRUE
    /\ disk = EmptyDisk
    /\ LIdle
    /\ XIdle
    /\ CIdle
    /\ GImported
    /\ VIdle
    /\ QIdle
    /\ RIdle

SpecLLM == GInit /\ [][GNext]_vars

\* vdb_nanovectordb.py has been imported and a storage object made
VInit ==
    /\ SIdle
    /\ KIdle
    /\ dataDirExists = TRUE
    /\ disk = EmptyDisk
    /\ LIdle
    /\ XIdle
    /\ cache_kind = "embedding"
    /\ ttl_seconds = EmbeddingTTLSeconds
    /\ max_entries = EmbeddingMaxEntries
    /\ now = 0
    /\ CEmpty
    /\ GIdle
    /\ vpc = "idle"
    /\ query = ""
    /\ size_at_start = 0
    /\ max_batch_size \in 1..MaxBatchSize
    /\ embedding_calls = 0
    /\ vector_ops = 0
    /\ vlast = NoOp
    /\ vprev = NoOp
    /\ QIdle
    /\ RIdle

SpecVector == VInit /\ [][VNext]_vars

\* an EmbeddingCache shared by the query coroutines of one event loop
QInit ==
    /\ SIdle
    /\ KIdle
    /\ dataDirExists = TRUE
    /\ disk = EmptyDisk
    /\ LIdle
    /\ XIdle
    /\ cache_kind = "embedding"
    /\ ttl_seconds = EmbeddingTTLSeconds
    /\ max_entries \in (1..MaxCapacity) \cup {EmbeddingMaxEntries}
    /\ now = 0
    /\ CEmpty
    /\ GIdle
    /\ VIdle
    /\ QIdle
    /\ RIdle

SpecConcurrent == QInit /\ [][QNext]_vars

\* an index loaded from any data directory, then read
RInit ==
    /\ SIdle
    /\ KIdle
    /\ dataDirExists = TRUE
    /\ disk \in ExpandDisks
    /\ index = LoadedIndex(disk)
    /\ lpc = "done"
    /\ pending = <<>>
    /\ loadList = Discover(disk)
    /\ initCalls = 1
    /\ first_index = LoadedIndex(disk)
    /\ first_list = Discover(disk)
    /\ XIdle
    /\ CIdle
    /\ GIdle
    /\ VIdle
    /\ QIdle
    /\ RIdle

SpecRead == RInit /\ [][RNext]_vars

\* chunk stores of collection A with an entry that is not an object at some
\* position, and one without
PartialChunkStores ==
    { <<NonObjectChunk("c1")>>,
      <<ChunkRecord("c1", 0), NonObjectChunk("c2")>>,
      <<NonObjectChunk("c1"), ChunkRecord("c2", 1)>>,
      <<ChunkRecord("c1", 0), ChunkRecord("c2", 1)>> }

\* collection A has a graph and one of these chunk stores, collection B has
\* no graph or Z alone
PartialDisks ==
    { [c \in Communes |->
         IF c = "A" THEN [graph |-> ga, chunks |-> [status |-> "ok", chunks |-> ka]]
         ELSE [graph |-> gb, chunks |-> NoChunks("missing")]] :
        ga \in {g \in GraphFiles("A") : g.status = "ok"},
        ka \in PartialChunkStores,
        gb \in {NoGraph("missing"),
                [status |-> "ok", nodes |-> Pick(PaletteNodes("B"), {2}, 1),
                 edges |-> <<>>]} }

\* report files of collection A with a rating given as text at some position
PartialReports ==
    { <<TextRating("0", <<"Parti">>, <<>>)>>,
      <<ReportEntry("0", TRUE, <<"Parti", "art">>, <<>>, 5),
        TextRating("1", <<"Taxe">>, <<>>)>>,
      <<TextRating("0", <<"Taxe">>, <<>>),
        ReportEntry("1", TRUE, <<"Parti">>, <<"art">>, 5)>>,
      <<ReportEntry("0", TRUE, <<"Parti", "art">>, <<>>, 5),
        ReportEntry("1", TRUE, <<"Parti">>, <<"art">>, 5)>> }

PartialReportDisks ==
    { [c \in Communes |->
         IF c = "A" THEN [status |-> "ok", entries |-> ra] ELSE rb] :
        ra \in PartialReports,
        rb \in {[status |-> "missing", entries |-> <<>>],
                [status |-> "ok",
                 entries |-> Pick(PaletteReports("B"), {1}, 1)]} }

\* a data directory in which a load may fail part-way: either the graph
\* index or the keyword index is built from it
PInit ==
    /\ SIdle
    /\ dataDirExists = TRUE
    /\ LIdle
    /\ XIdle
    /\ CIdle
    /\ GIdle
    /\ VIdle
    /\ QIdle
    /\ RIdle
    /\ community_cache = EmptyCommunityCache
    /\ kpc = "new"
    /\ search_query = <<>>
    /\ search_max_results = 0
    /\ search_max_communes = 0
    /\ search_results = <<>>
    /\ searches = 0
    /\ iterdir_order \in IterdirOrders
    /\ \/ /\ disk \in PartialDisks
          /\ reports = [c \in Communes |-> [status |-> "missing", entries |-> <<>>]]
       \/ /\ disk = EmptyDisk
          /\ reports \in PartialReportDisks

PNext ==
    \/ \E ids \in CommuneLists : InitializeList(ids)
    \/ LoadNext
    \/ FinishInitialize
    \/ Refresh

SpecPartial == PInit /\ [][PNext]_vars

\* a CommunityCache over the report files of a data directory
KInit ==
    /\ SIdle
    /\ dataDirExists = TRUE
    /\ disk = EmptyDisk
    /\ LIdle
    /\ XIdle
    /\ CIdle
    /\ GIdle
    /\ VIdle
    /\ QIdle
    /\ RIdle
    /\ reports \in ReportDisks
    /\ iterdir_order \in IterdirOrders
    /\ community_cache = EmptyCommunityCache
    /\ kpc = "new"
    /\ search_query = <<>>
    /\ search_max_results = 0
    /\ search_max_communes = 0
    /\ search_results = <<>>
    /\ searches = 0

SpecSearch == KInit /\ [][KNext]_vars

\* C1: however many callers are in flight, each singleton is constructed at
\* most once and its loader started at most once, every caller that is handed
\* an instance is handed the one the global holds, and a caller can only have
\* been handed one after exactly one construction and one loader run.
C1_ConstructedOnce ==
    \A k \in Kinds :
        /\ Len(instances[k]) <= 1
        /\ loaderRuns[k] <= 1
        /\ \A p \in Callers :
              (pc[p] = "done" /\ kind[p] = k) =>
                  /\ ret[p] = global[k]
                  /\ ret[p] # NoInstance
                  /\ Len(instances[k]) = 1
                  /\ loaderRuns[k] = 1

\* two callers of a server accessor both found the global unset, and both
\* were handed the same instance
C1_Witness ==
    \E p, q \in Callers :
        /\ p # q
        /\ kind[p] = kind[q]
        /\ kind[p] \in LockedKinds
        /\ sawNone[p] /\ sawNone[q]
        /\ pc[p] = "done" /\ pc[q] = "done"
        /\ ret[p] = ret[q]

\* C2: every instance that ensure_graph_index_initialized or
\* ensure_community_cache_initialized hands to a caller has had initialize()
\* run to completion.
C2_HandedOnlyInitialized ==
    \A p \in Callers :
        (pc[p] = "done" /\ kind[p] \in LockedKinds) =>
            instances[kind[p]][ret[p]] = "ready"

(***************************************************************************)
(* What initialize() was given to read                                     *)
(***************************************************************************)
RECURSIVE FileNodes(_)
\* the <node> elements of the graph files of the collections in ids
FileNodes(ids) ==
    IF ids = <<>> THEN <<>>
    ELSE (IF disk[Head(ids)].graph.status = "ok"
          THEN disk[Head(ids)].graph.nodes ELSE <<>>) \o FileNodes(Tail(ids))

RECURSIVE FileEdges(_)
\* the <edge> elements of the graph files of the collections in ids
FileEdges(ids) ==
    IF ids = <<>> THEN <<>>
    ELSE (IF disk[Head(ids)].graph.status = "ok"
          THEN disk[Head(ids)].graph.edges ELSE <<>>) \o FileEdges(Tail(ids))

\* number of elements of seq that satisfy P
CountIf(seq, P(_)) == Cardinality({i \in 1..Len(seq) : P(seq[i])})

\* number of file edges from u to v of relationship type t
CountFileEdges(edges, u, v, t) ==
    CountIf(edges, LAMBDA e : /\ StripQuotes(e.source) = u
                              /\ StripQuotes(e.target) = v
                              /\ EdgeRelType(e) = t)

\* number of adjacency entries under u that target v with type t and the
\* weight of t
CountAdjacency(idx, u, v, t) ==
    CountIf(get_neighbors(idx, u),
            LAMBDA a : /\ a.target = v /\ a.rel_type = t
                       /\ a.weight = RelationshipWeight(t))

ProvenanceTypes == {"HAS_SOURCE", "SOURCED_BY"}

RECURSIVE GraphEntriesUnder(_, _)
\* number of adjacency entries under the ids of S that come from graph files
GraphEntriesUnder(idx, S) ==
    IF S = {} THEN 0
    ELSE LET u == CHOOSE y \in S : TRUE
         IN  CountIf(idx.adjacency[u],
                     LAMBDA a : a.rel_type \notin ProvenanceTypes)
             + GraphEntriesUnder(idx, S \ {u})

GraphEntries(idx) == GraphEntriesUnder(idx, DOMAIN idx.adjacency)

EndpointsOf(edges) ==
    {StripQuotes(edges[i].source) : i \in 1..Len(edges)} \cup
    {StripQuotes(edges[i].target) : i \in 1..Len(edges)}
TypesOf(edges) == {EdgeRelType(edges[i]) : i \in 1..Len(edges)}

FirstInitializeDone == lpc = "done" /\ initCalls = 1

\* C3: after a first initialize() over collections whose graph files hold M
\* edges, stats total_edges is M, the adjacency lists hold 2*M entries of
\* graph-file relationship types, and for every u, v and type t the entries
\* under u that target v with type t and t's weight are as many as the file
\* edges (u, v, t) plus the file edges (v, u, t).
C3_EdgesBothWays ==
    FirstInitializeDone =>
        LET edges == FileEdges(loadList)
            ids == EndpointsOf(edges) \cup DOMAIN index.adjacency
        IN  /\ stats(index).total_edges = Len(edges)
            /\ GraphEntries(index) = 2 * Len(edges)
            /\ \A u \in ids, v \in ids, t \in TypesOf(edges) :
                  CountAdjacency(index, u, v, t) =
                      CountFileEdges(edges, u, v, t)
                      + CountFileEdges(edges, v, u, t)

\* both collections were loaded, with edges in each, a self-loop, and chunk
\* links beside the graph-file entries
C3_Witness ==
    /\ FirstInitializeDone
    /\ Len(loadList) = 2
    /\ Len(FileEdges(loadList)) >= 5
    /\ \E u \in DOMAIN index.adjacency :
          \E i \in 1..Len(index.adjacency[u]) :
              index.adjacency[u][i].rel_type = "HAS_SOURCE"

\* C4: after a first initialize() over collections whose graph files hold N
\* node records, stats total_nodes is N and exactly N ids resolve through
\* get_entity to an entity that is not a CHUNK.
C4_NodeCount ==
    FirstInitializeDone =>
        LET n == Len(FileNodes(loadList))
        IN  /\ stats(index).total_nodes = n
            /\ Cardinality({id \in DOMAIN index.entities :
                   get_entity(index, id).entity_type # "CHUNK"}) = n

(***************************************************************************)
(* What expand_weighted returned                                           *)
(***************************************************************************)
SeedSet == { seed_entities[i] : i \in DOMAIN seed_entities }

KnownSeeds == { s \in SeedSet : has_entity(index, s) }

Returned == xpc = "done"

ReturnedIds == { result.entities[i].id : i \in DOMAIN result.entities }

ReturnedWeights ==
    { <<result.entities[i].id, result.entities[i].traversal_weight>> :
        i \in DOMAIN result.entities }

PathSet == { paths[i] : i \in DOMAIN paths }

IsChunk(id) ==
    get_entity(index, id) # None /\ get_entity(index, id).entity_type = "CHUNK"

RECURSIVE Distinct(_, _)
\* seq without the later occurrences of an element
Distinct(seq, seen) ==
    IF seq = <<>> THEN <<>>
    ELSE IF Head(seq) \in seen THEN Distinct(Tail(seq), seen)
         ELSE <<Head(seq)>> \o Distinct(Tail(seq), seen \cup {Head(seq)})

\* the known seeds in list order, once each
KnownSeedList ==
    Distinct(SelectSeq(seed_entities, LAMBDA s : has_entity(index, s)), {})

\* C5 as stated: with max_hops = 0 the call returns exactly the known seeds,
\* each at weight 0, and no paths, whatever max_results is.
C5_ZeroHopsAllKnownSeeds ==
    (Returned /\ max_hops = 0) =>
        /\ ReturnedIds = KnownSeeds
        /\ \A i \in DOMAIN result.entities : result.entities[i].traversal_weight = 0
        /\ result.paths = <<>>

\* C5, amended: with max_hops = 0 the call settles the first max_results
\* distinct known seeds in list order and returns, in that order, those of
\* them that have metadata, each at weight 0, with no paths.
C5_ZeroHopsSeedsOnly ==
    (Returned /\ max_hops = 0) =>
        LET settled == SubSeq(KnownSeedList, 1, Min(max_results, Len(KnownSeedList)))
            kept == SelectSeq(settled, LAMBDA s : get_entity(index, s) # None)
        IN  /\ visit_order = settled
            /\ [i \in DOMAIN result.entities |-> result.entities[i].id] = kept
            /\ \A i \in DOMAIN result.entities :
                  result.entities[i].traversal_weight = 0
            /\ result.paths = <<>>

\* a zero-hop call returned a seed and left out a known seed that has edges
\* but no metadata
C5_Witness ==
    /\ Returned /\ max_hops = 0
    /\ result.entities # <<>>
    /\ \E s \in KnownSeeds : s \in DOMAIN visited /\ s \notin ReturnedIds
    /\ get_neighbors(index, seed_entities[1]) # <<>>

\* collection A holds X and Y and the one edge X -CONCERNE-> Y, collection B
\* holds Z alone, and expand_weighted(["X"], max_hops=1) is called
EndToEndScenario ==
    /\ disk["A"].graph.edges = <<PaletteEdges("A")[1]>>
    /\ Len(disk["B"].graph.nodes) = 1
    /\ disk["A"].chunks.status = "missing"
    /\ seed_entities = <<"X">>
    /\ max_hops = 1
    /\ max_results = DefaultMaxResults
    /\ commune_filter = NoFilter
    /\ include_chunks

\* C6: in the end-to-end scenario the call returns exactly X and Y, X at
\* weight 0 and Y at 1.0 plus the bonus of Y's type, and not Z.
C6_EndToEnd ==
    (Returned /\ EndToEndScenario) =>
        /\ RelationshipWeight(PaletteEdges("A")[1].type) = 10
        /\ ReturnedIds = {"X", "Y"}
        /\ "Z" \notin ReturnedIds
        /\ ReturnedWeights =
              { <<"X", 0>>,
                <<"Y", 10 + TypePriority(get_entity(index, "Y").entity_type)>> }

\* the end-to-end call has returned, with Z in the index
C6_Witness ==
    /\ Returned /\ EndToEndScenario
    /\ get_entity(index, "Z") # None
    /\ Len(result.entities) = 2

\* C7: the second of two calls with the same index and arguments returns the
\* same entity ids at the same weights as the first, and the index is what it
\* was before the first call.
C7_Deterministic ==
    (Returned /\ calls = 2) =>
        /\ ReturnedWeights =
              { <<first_result.entities[i].id,
                  first_result.entities[i].traversal_weight>> :
                  i \in DOMAIN first_result.entities }
        /\ index = LoadedIndex(disk)

\* a second call has returned several entities reached over edges
C7_Witness ==
    /\ Returned /\ calls = 2
    /\ first_result.returned
    /\ Len(result.entities) >= 2
    /\ result.paths # <<>>

\* C8: at most max_results ids are settled, at most max_results entities and
\* path edges are returned, the loop is left only when the queue is empty or
\* max_results ids are visited, and nothing is settled once that is so.
C8_Bounded ==
    /\ [](/\ Cardinality(DOMAIN visited) <= max_results
          /\ Len(paths) <= max_results
          /\ Len(result.entities) <= max_results
          /\ Len(result.paths) <= max_results)
    /\ [][ /\ (xpc = "loop" /\ xpc' = "done") =>
                (heap = {} \/ Cardinality(DOMAIN visited) >= max_results)
           /\ (xpc = "loop" /\ (heap = {} \/ Cardinality(DOMAIN visited) >= max_results)) =>
                (xpc' = "done" /\ visited' = visited /\ heap' = heap)
         ]_vars

\* a call stopped at max_results visited ids with entries left in the queue
C8_Witness ==
    /\ Returned
    /\ max_results > 0
    /\ Cardinality(DOMAIN visited) = max_results
    /\ heap # {}

\* C9: when a collection filter is given, every entity reached through an
\* edge - the target of every path record - that has a collection has one of
\* the filter's.
C9_FilterRespected ==
    commune_filter.given =>
        \A p \in PathSet :
            get_entity(index, p.target) # None =>
                get_entity(index, p.target).commune \in commune_filter.communes

\* C10: with include_chunks false no queue entry pushed through an edge, no
\* path target and no returned entity reached through an edge is CHUNK-typed,
\* and a CHUNK-typed path source is a seed.
C10_NoChunks ==
    ~include_chunks =>
        /\ \A e \in heap : e.came_from # None => ~IsChunk(e.entity_id)
        /\ \A p \in PathSet :
              /\ ~IsChunk(p.target)
              /\ IsChunk(p.source) => p.source \in SeedSet
        /\ \A id \in DOMAIN visited \cup ReturnedIds :
              IsChunk(id) => id \in SeedSet /\ \A p \in PathSet : p.target # id

\* a call without chunks has expanded X, which has a chunk for neighbor
C10_Witness ==
    /\ Returned /\ ~include_chunks
    /\ max_hops >= 1
    /\ seed_entities # <<>> /\ seed_entities[1] = "X"
    /\ \E i \in DOMAIN get_neighbors(index, "X") :
          IsChunk(get_neighbors(index, "X")[i].target)
    /\ result.paths # <<>>

(***************************************************************************)
(* What the caches answered                                                *)
(***************************************************************************)
\* the entry of last.before that the last operation's key names, as a set
NamedBefore ==
    { last.before[i] : i \in { j \in DOMAIN last.before :
                                 last.before[j].key = StoreKey(cache_kind, last.key) } }

\* the keys of last.before other than the last operation's
OtherKeysBefore == KeysOf(last.before) \ {StoreKey(cache_kind, last.key)}

\* C11: in each of the three caches, a get(k) that directly follows a
\* put(k, v) returns v.
C11_PutThenGet ==
    (last.op = "get" /\ prev.op = "put" /\ prev.key = last.key) =>
        last.value = prev.value

\* a get returned what a put on a full cache had just stored
C11_Witness ==
    /\ last.op = "get" /\ prev.op = "put" /\ prev.key = last.key
    /\ last.outcome = "hit"
    /\ Len(last.before) = max_entries
    /\ ops >= 3

\* C12: with a positive TTL, a get(k) of a stored key issued when at least TTL
\* time units have passed since k was stored is a miss and removes k; one
\* issued earlier returns the stored value and keeps the entry.
C12_ExpiresAtTTL ==
    (last.op = "get" /\ ttl_seconds >= 1 /\ cache_kind \in {"embedding", "llm"}) =>
        \A e \in NamedBefore :
            IF now - e.timestamp >= ttl_seconds
            THEN last.value = None /\ e.key \notin KeysOf(entries)
            ELSE last.value = e.value /\ e \in {entries[i] : i \in DOMAIN entries}

\* the entries of last.before with the smallest timestamp
OldestBefore ==
    { e \in {last.before[i] : i \in DOMAIN last.before} :
        \A j \in DOMAIN last.before : e.timestamp <= last.before[j].timestamp }

\* C13: a put (set) on a cache at capacity removes exactly one pre-existing
\* entry, one with the smallest stored timestamp, and no other; a put below
\* capacity removes none.
C13_EvictsOldestOnly ==
    (last.op = "put" /\ cache_kind \in {"embedding", "llm"}) =>
        IF Len(last.before) >= max_entries
        THEN /\ Len(last.evicted) = 1
             /\ last.evicted[1] \in OldestBefore
             /\ OtherKeysBefore \ {last.evicted[1].key} \subseteq KeysOf(entries)
        ELSE /\ last.evicted = <<>>
             /\ KeysOf(last.before) \subseteq KeysOf(entries)

\* C14: the LLM response cache never holds more than max_entries entries, and
\* after a set on a full cache the key set is retrievable while the oldest
\* key is gone.
C14_NeverOverCapacity ==
    cache_kind = "llm" =>
        /\ Len(entries) <= max_entries
        /\ (last.op = "put" /\ Len(last.before) >= max_entries) =>
              /\ last.key \in KeysOf(entries)
              /\ \E e \in OldestBefore : e.key = last.key \/ e.key \notin KeysOf(entries)

\* C15: when a put on the GraphRAG instance cache evicts, the entries evicted
\* are the least recently stored or hit ones.
C15_EvictsLeastRecentlyUsed ==
    (last.op = "put" /\ cache_kind = "graphrag") =>
        \A i \in DOMAIN last.evicted : last.evicted[i].key = last.lru[i]

\* C16: hits + misses is the number of get calls; a get adds one to hits if it
\* returns a stored value and one to misses otherwise; a put changes neither.
C16_CountersAddUp ==
    /\ [](hits + misses = gets)
    /\ [][ /\ gets' = gets + 1 =>
                IF last'.value # None
                THEN hits' = hits + 1 /\ misses' = misses
                ELSE hits' = hits /\ misses' = misses + 1
           /\ (ops' = ops + 1 /\ gets' = gets) =>
                (hits' = hits /\ misses' = misses)
         ]_vars

\* gets have hit, missed an absent key and missed an expired one
C16_Witness ==
    /\ hits >= 1
    /\ misses >= 2
    /\ last.op = "get" /\ last.outcome = "expired"

(***************************************************************************)
(* One LLM response cache for the process                                  *)
(***************************************************************************)
\* the caches of the GraphRAG instances created with enable_llm_cache
RagCaches ==
    { llm_response_cache[r] : r \in { q \in DOMAIN llm_response_cache :
                                        llm_response_cache[q] # 0 } }

\* the value the batch data stores under key, as a set
StoredBy(data, key) ==
    { data[i].value : i \in { j \in DOMAIN data : data[j].key = key } }

\* C17: every LLMResponseCacheSingleton() returns the one object the module
\* made at import and leaves its contents alone; every GraphRAG instance with
\* enable_llm_cache holds that object, so a get_by_id through any instance that
\* directly follows an upsert returns what was upserted, and all instances
\* report the same statistics.
C17_OneCache ==
    /\ [](/\ \A i \in DOMAIN constructed : constructed[i] = GlobalSingleton
          /\ _instance = GlobalSingleton
          /\ RagCaches \subseteq {GlobalSingleton}
          /\ \A a, b \in RagCaches : LLMStats(llm_objects[a]) = LLMStats(llm_objects[b])
          /\ (glast.op = "get_by_id" /\ gprev.op = "upsert") =>
                \A v \in StoredBy(gprev.data, glast.key) : glast.value = v)
    /\ [][Len(constructed') > Len(constructed) => llm_objects' = llm_objects]_vars

\* an entry upserted through one GraphRAG instance was read through another,
\* after the cache class had been constructed again
C17_Witness ==
    /\ glast.op = "get_by_id" /\ gprev.op = "upsert"
    /\ glast.rag # gprev.rag
    /\ glast.value # None
    /\ Len(constructed) >= 2
    /\ Len(llm_objects[GlobalSingleton].items) = 2

(***************************************************************************)
(* What the vector store cached                                            *)
(***************************************************************************)
\* the keys of the contents a batch holds
ContentKeys(contents) == { _hash_text(contents[i]) : i \in DOMAIN contents }

\* C18: a query whose text is not cached calls the embedding function once
\* and adds exactly one entry, stored under the hash of the text; a query of
\* the same text directly after it is a hit that calls no embedding function
\* and leaves the number of entries unchanged.
C18_SecondQueryHits ==
    vlast.op = "query" =>
        /\ IF vlast.hit
           THEN vlast.calls = 0 /\ vlast.size_after = vlast.size_before
           ELSE vlast.calls = 1 /\ vlast.size_after = vlast.size_before + 1
        /\ _hash_text(vlast.text) \in KeysOf(entries)
        /\ (vprev.op = "query" /\ vprev.text = vlast.text) => vlast.hit

\* the same text was queried twice in a row: a miss, then a hit
C18_Witness ==
    /\ vlast.op = "query" /\ vprev.op = "query"
    /\ vprev.text = vlast.text
    /\ ~vprev.hit /\ vlast.hit
    /\ embedding_calls = 1
    /\ Len(entries) = 1

\* C19: after an upsert every document text has a cached embedding, and the
\* upsert added one entry per distinct text that had none.
C19_UpsertCaches ==
    vlast.op = "upsert" =>
        /\ ContentKeys(vlast.contents) \subseteq KeysOf(entries)
        /\ Len(entries) = Len(vlast.before)
                          + Cardinality(ContentKeys(vlast.contents) \ KeysOf(vlast.before))

\* the collections of ids whose graph file is missing or not well-formed
Faulty(ids) == {i \in 1..Len(ids) : disk[ids[i]].graph.status # "ok"}

\* the nodes of graph file g resolve through get_entity, and every edge of g
\* has an adjacency entry under each of its endpoints
GraphPresent(idx, g) ==
    /\ \A i \in 1..Len(g.nodes) :
          StripQuotes(g.nodes[i].id) # "" =>
              get_entity(idx, StripQuotes(g.nodes[i].id)) # None
    /\ \A i \in 1..Len(g.edges) :
          LET src == StripQuotes(g.edges[i].source)
              tgt == StripQuotes(g.edges[i].target)
              t == EdgeRelType(g.edges[i])
          IN  (src # "" /\ tgt # "") =>
                  /\ CountAdjacency(idx, src, tgt, t) >= 1
                  /\ CountAdjacency(idx, tgt, src, t) >= 1

\* C20: once initialize() has returned for a list that holds a collection
\* whose graph file is missing or unparseable, whatever its position, every
\* other collection of the list is among the loaded ones and its entities
\* and edges are present in the index.
C20_FaultyDoesNotStopLoad ==
    (lpc = "done" /\ Faulty(loadList) # {}) =>
        \A i \in 1..Len(loadList) :
            i \notin Faulty(loadList) =>
                /\ loadList[i] \in index.loaded_communes
                /\ GraphPresent(index, disk[loadList[i]].graph)

\* the first collection of a list of two is faulty and the second one, which
\* has nodes and edges, was loaded after it in a first initialize()
C20_Witness ==
    /\ FirstInitializeDone
    /\ Len(loadList) = 2
    /\ Faulty(loadList) = {1}
    /\ disk[loadList[2]].graph.nodes # <<>>
    /\ disk[loadList[2]].graph.edges # <<>>
    /\ loadList[2] \in index.loaded_communes
    /\ index.total_edges = Len(disk[loadList[2]].graph.edges)

\* the ids callers ask the read API about: the ids the files may hold and one
\* that no file holds
QueryIds == {"X", "Y", "Z", "G", "c1", "c2", "nobody"}

\* every read of the index answers with nothing
AnswersEmpty(idx) ==
    /\ stats(idx).loaded_communes = 0
    /\ \A id \in QueryIds :
          /\ get_neighbors(idx, id) = <<>>
          /\ get_entity(idx, id) = None
          /\ get_chunk(idx, id) = None
    /\ \A seeds \in SeedLists, hops \in HopValues, filter \in Filters,
          include \in BOOLEAN :
          LET r == expand_weighted(idx, seeds, hops, DefaultMaxResults,
                                   filter, include)
          IN  r.entities = <<>> /\ r.paths = <<>>

\* C21: initialize never raises, whatever is absent on disk (the data
\* directory, a collection directory, a graph file, a chunk file), and when
\* it has returned with nothing loaded, stats reports zero loaded collections
\* and get_neighbors, get_entity, get_chunk and expand_weighted answer with
\* empty or absent results.
C21_NeverFatal ==
    /\ lpc # "raised"
    /\ (lpc = "done" /\ index.loaded_communes = {}) => AnswersEmpty(index)

\* the names callers look up
NameQueries == {"taxe", "Taxe", "taxe ", "TAXE", "Impot", "impot", "X", "Z",
                "nobody"}

\* the ids a collection's files hold: node ids, edge endpoints, chunk ids
IdsOf(files) ==
    {StripQuotes(files.graph.nodes[i].id) : i \in DOMAIN files.graph.nodes}
    \cup {StripQuotes(files.graph.edges[i].source) : i \in DOMAIN files.graph.edges}
    \cup {StripQuotes(files.graph.edges[i].target) : i \in DOMAIN files.graph.edges}
    \cup {files.chunks.chunks[i].chunk_id : i \in DOMAIN files.chunks.chunks}
\* the ids of the collections loaded so far
LoadedIds == UNION {IdsOf(disk[c]) : c \in index.loaded_communes}

\* the name a node is stored under: entity_name, or the node id without one
NameOf(node) ==
    IF GetData(node, "entity_name") # "" THEN GetData(node, "entity_name")
    ELSE StripQuotes(node.id)
\* the normalized names of the nodes of the collections loaded so far
LoadedNames ==
    UNION { {Normalize(NameOf(disk[c].graph.nodes[i])) :
                i \in DOMAIN disk[c].graph.nodes} :
            c \in index.loaded_communes }

\* C22: in every state of the index, also in the middle of a load,
\* get_neighbors on an id that no loaded file holds returns the empty
\* sequence, and get_entity and get_chunk on such an id, and
\* get_entity_by_name on a name no loaded node has, return None.
C22_UnknownIsEmpty ==
    /\ \A id \in QueryIds \ LoadedIds :
          /\ get_neighbors(index, id) = <<>>
          /\ get_entity(index, id) = None
          /\ get_chunk(index, id) = None
    /\ \A q \in NameQueries :
          Normalize(q) \notin LoadedNames => get_entity_by_name(index, q) = None

\* one collection is loaded, with edges and chunks, and the ids and names of
\* the other one are asked for beside an id that no file holds
C22_Witness ==
    /\ lpc = "done"
    /\ index.loaded_communes = {"A"}
    /\ DOMAIN index.adjacency # {}
    /\ DOMAIN index.chunks # {}
    /\ {"Z", "nobody"} \subseteq QueryIds \ LoadedIds
    /\ Normalize("impot") \notin LoadedNames
    /\ "TAXE" \in LoadedNames

\* the nodes of collection c's graph file that are stored, in file order,
\* each with the collection that wrote it
WrittenBy(c) ==
    LET nodes == SelectSeq(disk[c].graph.nodes,
                           LAMBDA n : StripQuotes(n.id) # "")
    IN  [i \in 1..Len(nodes) |->
            [node_id |-> StripQuotes(nodes[i].id), name |-> NameOf(nodes[i]),
             commune |-> c]]

RECURSIVE Written(_)
\* the nodes written by a load of the collections ids, in load order
Written(ids) ==
    IF ids = <<>> THEN <<>> ELSE WrittenBy(Head(ids)) \o Written(Tail(ids))

\* the positions of the written nodes whose normalized name is that of q
Namesakes(written, q) ==
    {i \in 1..Len(written) : Normalize(written[i].name) = Normalize(q)}

\* the greatest element of a non-empty set of numbers
Last(S) == CHOOSE i \in S : \A j \in S : j <= i

\* C23: after a first initialize(), whenever get_entity_by_name(q) returns an
\* entity, that entity's name trimmed and uppercased equals q trimmed and
\* uppercased, and it is the node written last, in load order, among the
\* loaded nodes of that normalized name.
C23_NameLookup ==
    FirstInitializeDone =>
        \A q \in NameQueries :
            LET e == get_entity_by_name(index, q)
                written == Written(loadList)
                same == Namesakes(written, q)
            IN  e # None =>
                    /\ Normalize(e.name) = Normalize(q)
                    /\ same # {}
                    /\ e.node_id = written[Last(same)].node_id
                    /\ e.name = written[Last(same)].name
                    /\ e.commune = written[Last(same)].commune

\* the words of a title or summary, lowercased
WordsOf(text) == {Lower(text[i]) : i \in DOMAIN text}
\* a title or summary without the word k
Without(text, k) == SelectSeq(text, LAMBDA w : Lower(w) # k)

\* the communities the cache stores
StoredCommunities ==
    {community_cache._communities[key] : key \in DOMAIN community_cache._communities}

\* t and s differ only in where the word k stands: in t's title, and in s's
\* summary but not in s's title
DifferOnlyIn(t, s, k) ==
    /\ k \in WordsOf(t.title)
    /\ k \notin WordsOf(s.title)
    /\ k \in WordsOf(s.summary)
    /\ Without(t.title, k) = s.title
    /\ Without(t.summary, k) = Without(s.summary, k)
    /\ t.rating = s.rating

\* the score the last search gave a community: the sum over the query's
\* keywords, which does not depend on the order they are taken in
ScoreOf(community) ==
    LET words == CHOOSE o \in Orderings(ExtractKeywords(search_query)) : TRUE
        scores == AggregateScores(<<>>, community_cache, words)
        at == {i \in DOMAIN scores :
                 scores[i].key = <<community.commune_id, community.community_id>>}
    IN  IF at = {} THEN 0 ELSE scores[CHOOSE i \in at : TRUE].score

\* the positions of a community in the results of the last search
PositionsOf(community) ==
    {i \in DOMAIN search_results : search_results[i].community = community}

\* C24: for two stored communities that differ only in whether a keyword of
\* the query stands in the title or only in the summary, the search scores
\* the title-match community strictly higher and, when it returns both,
\* returns the title-match one first.
C24_TitleBeatsSummary ==
    searches > 0 =>
        \A t \in StoredCommunities, s \in StoredCommunities :
            \A k \in ExtractKeywords(search_query) :
                DifferOnlyIn(t, s, k) =>
                    /\ ScoreOf(t) > ScoreOf(s)
                    /\ \A i \in PositionsOf(t), j \in PositionsOf(s) : i < j

\* the collections the results of the last search come from
ResultCommunes ==
    {search_results[i].community.commune_id : i \in DOMAIN search_results}

\* C25: for every query, max_results and max_communes, the communities a
\* search returns come from at most max_communes distinct collections and
\* number at most max_results.
C25_CollectionCap ==
    searches > 0 =>
        /\ Cardinality(ResultCommunes) <= search_max_communes
        /\ Len(search_results) <= search_max_results

\* the elements of a sequence
Range(seq) == {seq[i] : i \in DOMAIN seq}

\* the ids the index knows: entities, chunks and edge endpoints
KnownIds(idx) == DOMAIN idx.entities \cup DOMAIN idx.adjacency

\* C26: when initialize() is called a second time with a superset of the
\* collections of the first call, get_neighbors, get_entity,
\* get_chunks_for_entity and expand_weighted return, for every id the first
\* call loaded, what they returned after the first call.
C26_ReloadIdempotent ==
    (lpc = "done" /\ initCalls = 2 /\ Range(first_list) \subseteq Range(loadList)) =>
        \A id \in KnownIds(first_index) :
            /\ get_neighbors(index, id) = get_neighbors(first_index, id)
            /\ get_entity(index, id) = get_entity(first_index, id)
            /\ get_chunks_for_entity(index, id) =
                   get_chunks_for_entity(first_index, id)
            /\ \A hops \in HopValues :
                  LET again == expand_weighted(index, <<id>>, hops,
                                   DefaultMaxResults, NoFilter, TRUE)
                      first == expand_weighted(first_index, <<id>>, hops,
                                   DefaultMaxResults, NoFilter, TRUE)
                  IN  again.entities = first.entities /\ again.paths = first.paths

\* the edge may be followed under the filters of the call: its target is not
\* a chunk left out by include_chunks nor an entity of a filtered collection
Followed(edge) ==
    /\ ~SkipsChunk(include_chunks, get_entity(index, edge.target))
    /\ ~SkipsCommune(commune_filter, get_entity(index, edge.target))

\* what a hop through edge adds: relationship weight plus type bonus
HopWeight(edge) == edge.weight + TypeBonus(get_entity(index, edge.target))

\* the greatest of a non-empty set of numbers
Max(S) == CHOOSE x \in S : \A y \in S : y <= x

\* the cumulative weights of the paths of at most hops followed edges that
\* start at id u and end at id v without passing twice through an id
PathWeights(u, v, hops) ==
    LET Walk[w \in KnownIds(index), h \in 0..hops, avoid \in SUBSET KnownIds(index)] ==
            (IF w = v THEN {0} ELSE {}) \cup
            (IF h = 0 THEN {}
             ELSE UNION { IF Followed(get_neighbors(index, w)[i])
                             /\ get_neighbors(index, w)[i].target \notin avoid
                          THEN { HopWeight(get_neighbors(index, w)[i]) + rest :
                                   rest \in Walk[get_neighbors(index, w)[i].target,
                                                  h - 1,
                                                  avoid \cup {get_neighbors(index, w)[i].target}] }
                          ELSE {} :
                          i \in DOMAIN get_neighbors(index, w) })
    IN  Walk[u, hops, {u}]

\* C27: when expand_weighted has returned, the weight recorded for every
\* settled entity is at least the cumulative weight (edge weight plus type
\* bonus per hop) of every path of at most max_hops edges that leads from a
\* known seed to it and respects the filters.
C27_SettledWeightOptimal ==
    xpc = "done" =>
        \A v \in DOMAIN visited :
            \A u \in KnownSeeds :
                \A w \in PathWeights(u, v, max_hops) : w <= visited[v]

\* the ids a chain of at most hops adjacency edges leads to from a known seed
ReachableWithin(hops) ==
    {v \in KnownIds(index) :
        \E u \in KnownSeeds : PathWeights(u, v, hops) # {}}

\* C28: with no collection filter, include_chunks true and max_results
\* larger than the number of indexed ids, expand_weighted settles every id
\* that a chain of at most max_hops adjacency edges reaches from a known
\* seed.
C28_CompleteWithinHops ==
    (xpc = "done" /\ commune_filter = NoFilter /\ include_chunks
     /\ max_results > Cardinality(KnownIds(index))) =>
        ReachableWithin(max_hops) \subseteq DOMAIN visited

\* C29: every queue entry of an entity that is already visited weighs at
\* most the weight recorded for the entity, so whenever a popped entry is
\* skipped the recorded weight is at least the skipped entry's weight: the
\* recorded weight is the best among the entries pushed for the entity.
C29_SkippedNotBetter ==
    \A e \in heap :
        e.entity_id \in DOMAIN visited => -e.neg_weight <= visited[e.entity_id]

\* the next pop skips an entry that came through an edge and weighs less
\* than the weight its entity was settled with
C29_Witness ==
    /\ xpc = "loop"
    /\ LoopContinues
    /\ HeapTop(heap).entity_id \in DOMAIN visited
    /\ HeapTop(heap).came_from # None
    /\ -HeapTop(heap).neg_weight < visited[HeapTop(heap).entity_id]

\* the path records whose target is id
RecordsTo(id) == {i \in DOMAIN paths : paths[i].target = id}

\* the type priority of an id's metadata, in tenths of the bonus unit; 0
\* without metadata
PriorityTenth(id) ==
    IF get_entity(index, id) # None
    THEN TypePriority(get_entity(index, id).entity_type) ELSE 0

\* C30: at every point of a call, an entity settled through an edge has the
\* recorded weight of the edge's source plus the relationship weight of the
\* edge plus its own type bonus (0 without metadata), and an entity settled
\* from its seed entry has weight 0.
C30_WeightIsSourcePlusHop ==
    xpc \in {"loop", "done"} =>
        \A id \in DOMAIN visited :
            /\ \A i \in RecordsTo(id) :
                  /\ paths[i].source \in DOMAIN visited
                  /\ paths[i].weight = RelationshipWeight(paths[i].type)
                  /\ visited[id] = visited[paths[i].source] + paths[i].weight
                                      + PriorityTenth(id)
            /\ RecordsTo(id) = {} => visited[id] = 0

\* a call has returned after settling an entity two edges away from the seed
\* and an id that has no metadata
C30_Witness ==
    /\ xpc = "done"
    /\ \E i \in DOMAIN paths : paths[i].hop = 2
    /\ \E i \in DOMAIN paths : get_entity(index, paths[i].target) = None
    /\ \E id \in DOMAIN visited : RecordsTo(id) = {}

\* the position of a visited id in the order of settling
SettledAt(id) == CHOOSE i \in DOMAIN visit_order : visit_order[i] = id

\* the depth an id was settled at: the hop of its path record, 0 without one
DepthOf(id) ==
    IF RecordsTo(id) = {} THEN 0 ELSE paths[CHOOSE i \in RecordsTo(id) : TRUE].hop

\* C31: at every point of a call the path records are the edges used to
\* reach the settled ids and form a forest rooted at seeds: an id settled
\* through an edge (its weight is not 0) is the target of exactly one
\* record, whose source was settled earlier, whose edge is an entry of the
\* source's adjacency list, and whose hop is the source's depth plus one and
\* at most max_hops; an id settled from a seed entry has no record, and
\* every record targets a settled id.
C31_PathsAreForest ==
    xpc \in {"loop", "done"} =>
        /\ \A i \in DOMAIN paths : paths[i].target \in DOMAIN visited
        /\ \A id \in DOMAIN visited :
              /\ visited[id] = 0 => RecordsTo(id) = {}
              /\ visited[id] # 0 => Cardinality(RecordsTo(id)) = 1
              /\ \A i \in RecordsTo(id) :
                    LET src == paths[i].source
                    IN  /\ src \in DOMAIN visited
                        /\ SettledAt(src) < SettledAt(id)
                        /\ \E k \in DOMAIN get_neighbors(index, src) :
                              get_neighbors(index, src)[k] =
                                  EdgeInfo(id, paths[i].type, paths[i].weight)
                        /\ paths[i].hop = DepthOf(src) + 1
                        /\ paths[i].hop <= max_hops

\* a call has returned a chain of two records, seed to an id to a further
\* id, beside a seed that has no record
C31_Witness ==
    /\ xpc = "done"
    /\ \E i \in DOMAIN paths, j \in DOMAIN paths :
          /\ paths[i].hop = 1 /\ paths[j].hop = 2
          /\ paths[j].source = paths[i].target
          /\ RecordsTo(paths[i].source) = {}
          /\ paths[i].source \in SeedSet

RECURSIVE DegreeSum(_)
\* the number of adjacency entries under the ids of a sequence
DegreeSum(ids) ==
    IF ids = <<>> THEN 0
    ELSE Len(get_neighbors(index, Head(ids))) + DegreeSum(Tail(ids))

\* C32: on every index, also with cycles, self-loops and parallel edges, and
\* for every max_hops and max_results, a call of expand_weighted returns:
\* no id is settled (and so expanded) twice, the entries pushed are at most
\* one per seed and one per adjacency entry of a settled id, and the loop
\* ends.
C32_Terminates ==
    /\ [](/\ \A i \in DOMAIN visit_order, j \in DOMAIN visit_order :
                visit_order[i] = visit_order[j] => i = j
          /\ counter <= Len(seed_entities) + DegreeSum(visit_order))
    /\ (xpc = "loop") ~> (xpc = "done")

\* a call has returned on a graph with a self-loop on X and two edges
\* between X and Y, after settling both and skipping entries
C32_Witness ==
    /\ xpc = "done"
    /\ \E k \in DOMAIN get_neighbors(index, "X") :
          get_neighbors(index, "X")[k].target = "X"
    /\ Cardinality({k \in DOMAIN get_neighbors(index, "X") :
                       get_neighbors(index, "X")[k].target = "Y"}) = 2
    /\ {"X", "Y"} \subseteq DOMAIN visited
    /\ counter > Len(visit_order)

\* C33: after any sequence of get and put calls, the GraphRAG instance cache
\* and the embedding cache hold at most as many entries as their capacity
\* (maxsize, max_entries), for every capacity of at least 1.
C33_BoundedCaches ==
    (cache_kind \in {"graphrag", "embedding"} /\ max_entries >= 1) =>
        Len(entries) <= max_entries

\* a put of a new key on a full embedding cache has evicted an entry and
\* left the cache full
C33_Witness ==
    /\ cache_kind = "embedding"
    /\ last.op = "put"
    /\ Len(last.before) = max_entries
    /\ last.key \notin KeysOf(last.before)
    /\ last.evicted # <<>>
    /\ Len(entries) = max_entries
    /\ max_entries >= 2

\* C34: a put for a key that is already in the cache overwrites that key's
\* value and timestamp and leaves every other entry in place, also when the
\* cache is at capacity: it evicts no other key and the cache does not shrink.
C34_OverwriteEvictsNothing ==
    (last.op = "put" /\ StoreKey(cache_kind, last.key) \in KeysOf(last.before)) =>
        /\ \A i \in DOMAIN last.evicted :
              last.evicted[i].key = StoreKey(cache_kind, last.key)
        /\ Len(entries) = Len(last.before)
        /\ \A i \in DOMAIN last.before :
              IF last.before[i].key = StoreKey(cache_kind, last.key)
              THEN \E j \in DOMAIN entries :
                      /\ entries[j].key = last.before[i].key
                      /\ entries[j].value = last.value
                      /\ entries[j].timestamp = now
              ELSE \E j \in DOMAIN entries : entries[j] = last.before[i]

\* C35: when several query calls for the same text are in flight at once,
\* interleaved at the await of the embedding function between the cache get
\* and the cache put, the embedding function is invoked at most once for the
\* text (no two calls await it for the same text) and the later puts, which
\* find the text stored, evict no unrelated entry.
C35_EmbeddedOncePerText ==
    /\ \A text \in VectorTexts : Cardinality(Awaiting(text)) <= 1
    /\ (qlast.op = "put" /\ _hash_text(qlast.key) \in KeysOf(qlast.before)) =>
          \A i \in DOMAIN qlast.evicted :
              qlast.evicted[i].key = _hash_text(qlast.key)

\* the ids of the chunks get_chunks_for_entity returns
ChunkIdsOf(idx, entity_id) ==
    {get_chunks_for_entity(idx, entity_id)[i].chunk_id :
        i \in DOMAIN get_chunks_for_entity(idx, entity_id)}

\* the ids of the entities get_entities_for_chunk returns
EntityIdsOf(idx, chunk_id) ==
    {get_entities_for_chunk(idx, chunk_id)[i].node_id :
        i \in DOMAIN get_entities_for_chunk(idx, chunk_id)}

NonChunkEntities(idx) ==
    {e \in DOMAIN idx.entities : idx.entities[e].entity_type # "CHUNK"}

\* C36: get_entities_for_chunk is the inverse of get_chunks_for_entity: in
\* every loaded index, for every non-chunk entity e and every chunk c, c is
\* among get_chunks_for_entity(e) exactly when e is among
\* get_entities_for_chunk(c).
C36_ChunkLookupsInverse ==
    lpc = "done" =>
        \A e \in NonChunkEntities(index), c \in DOMAIN index.chunks :
            c \in ChunkIdsOf(index, e) <=> e \in EntityIdsOf(index, c)

\* every entry of map before is still there, with the same value, in after
KeptIn(before, after) ==
    \A k \in DOMAIN before : k \in DOMAIN after /\ after[k] = before[k]

\* C37: loading different collections writes disjoint keys of the shared
\* maps: a step of the first initialize call, which loads a collection not
\* loaded before, leaves every entity, chunk, provenance and adjacency entry
\* created by the collections loaded earlier as it was.
C37_DisjointKeys ==
    [][(initCalls = 1 /\ lpc = "loading" /\ pending # <<>>) =>
          /\ KeptIn(index.entities, index'.entities)
          /\ KeptIn(index.chunks, index'.chunks)
          /\ KeptIn(index.entity_source_ids, index'.entity_source_ids)
          /\ KeptIn(index.adjacency, index'.adjacency)]_vars

\* the load of the collection raises after its nodes and edges were processed
FailsPartWay(files) ==
    /\ files.graph.status = "ok"
    /\ files.chunks.status = "ok"
    /\ \E i \in DOMAIN files.chunks.chunks : ~files.chunks.chunks[i].is_object

\* the load of the report file raises at one of its entries
ReportFailsPartWay(file) ==
    file.status = "ok" /\ \E i \in DOMAIN file.entries : ReportRaises(file.entries[i])

\* C38: a collection whose load fails part-way (an exception raised after
\* some of its node, edge, chunk or community records were processed) is
\* skipped as a whole: the graph index and the keyword index are what loading
\* the other collections alone gives, with none of its entities, adjacency
\* entries, chunks or keyword entries, and it is not counted as loaded.
C38_FailedLoadLeavesNothing ==
    /\ (lpc = "done" /\ initCalls = 1) =>
          index = LoadAll(EmptyIndex,
                      SelectSeq(loadList, LAMBDA c : ~FailsPartWay(disk[c])),
                      disk)
    /\ kpc = "ready" =>
          community_cache =
              RefreshCache(EmptyCommunityCache,
                  SelectSeq(iterdir_order,
                            LAMBDA c : ~ReportFailsPartWay(reports[c])),
                  reports)

\* C39: read operations leave the loaded index unchanged: after any sequence
\* of get_neighbors, get_entity, get_entity_by_name, has_entity, get_chunk,
\* get_chunks_for_entity, get_entities_for_chunk and expand_weighted calls,
\* on known and unknown ids, the adjacency, entity, name, chunk and provenance
\* maps are as the load left them, and an unknown id looked up with
\* get_neighbors is still unknown to has_entity.
C39_ReadsChangeNothing ==
    /\ index.adjacency = first_index.adjacency
    /\ index.entities = first_index.entities
    /\ index.name_index = first_index.name_index
    /\ index.chunks = first_index.chunks
    /\ index.entity_source_ids = first_index.entity_source_ids
    /\ (rlast.op = "get_neighbors" /\ ~has_entity(first_index, rlast.arg)) =>
          ~has_entity(index, rlast.arg)

\* get_neighbors has been called for an id the index does not know, after
\* another read
C39_Witness ==
    /\ reads = MaxReads
    /\ rlast.op = "get_neighbors"
    /\ ~has_entity(first_index, rlast.arg)
    /\ DOMAIN index.adjacency # {}

====
